---- MODULE Spec2Model ----
(***************************************************************************)
(* A model of the object-graph persistence code of openpathsampling:      *)
(*   - the JSON helpers of new/serialization_helpers.py (SpecJson),       *)
(*   - the batch-load resolver of new/serialization_helpers.py (SpecLoad),*)
(*   - the row deserializer of new/serialization.py (SpecDeser),          *)
(*   - the index-based store layer of storage/netcdfplus.py with the      *)
(*     proxies of netcdfplus/proxy.py (Spec),                             *)
(*   - the proxies on their own: resolution and equality (SpecProxy),     *)
(*   - NetCDFPlus.save of objects, lists and tuples (SpecSave),           *)
(*   - the variable delegates of storage/netcdfplus.py (SpecVar),         *)
(*   - StorableObject.from_dict and its callers (SpecRec),                *)
(*   - the attribute handlers built from a schema (SpecTypes),            *)
(*   - the declaration of dimensions and variables (SpecDim),             *)
(*   - opening a container file in a mode (SpecOpen),                     *)
(*   - the lazy attributes of DelayedLoader (SpecLazy),                   *)
(*   - the names of StorableNamedObject (SpecName),                       *)
(*   - the observer switch of netcdfplus/base.py (SpecObs),               *)
(*   - SampleSet of sample.py in both packages (SpecSet),                 *)
(*   - get_all_uuids_loading with its arguments (SpecClosure and, fairly  *)
(*     scheduled, SpecClosureFair),                                       *)
(*   - DirectSimulation.run of pathsimulators/shoot_from_snapshot.py      *)
(*     (SpecSim),                                                         *)
(*   - SparseHistogram of analysis/histogram.py (SpecHist),               *)
(*   - TransformedDict of analysis/shooting_point_analysis.py             *)
(*     (SpecRehash),                                                      *)
(*   - find_dependent_uuids on the JSON text of a value (SpecDeps).       *)
(* Every specification uses its own group of variables and leaves the     *)
(* other groups at their idle values.                                     *)
(***************************************************************************)
EXTENDS Integers, Sequences, FiniteSets, TLC

VARIABLES
    \* ---- JSON helpers (SpecJson)
    jobj,      \* the storable object handed to to_json_obj / the value handed to to_bare_json
    jpath,     \* "obj": to_json_obj/from_json_obj, "bare": to_bare_json/from_bare_json
    jjson,     \* the JSON text produced (as a parse tree)
    jres,      \* what the deserializer returned
    jpc,       \* "start" | "serialized" | "done"
    \* ---- batch load (SpecLoad)
    lcaller,       \* "load": closure, DAG, reconstruction; "deserialize": the function deserialize
    lstore,        \* the backend's rows: uuid -> [strict, lazy], the uuids its attributes hold
    lroots,        \* the uuid_list the load was called with
    uuid_list,     \* get_all_uuids_loading: the uuids of the next round
    known_uuids,   \* get_all_uuids_loading: the uuids already asked for
    all_table_rows,\* get_all_uuids_loading: the rows fetched (by uuid)
    lazy,          \* get_all_uuids_loading: the lazy uuids collected
    dependencies,  \* get_all_uuids_loading: uuid -> the uuids its row refers to
    dag,           \* the edges of the reconstruction DAG
    order,         \* the reload order still to be reconstructed
    new_uuids,     \* the resolved set, in the order of reconstruction
    lproxies,      \* the lazy proxies made
    lerr,          \* the exception the load ended with, or "none"
    lpc,           \* the position of the load
    \* ---- deserializing one row (SpecDeser)
    dcaller,   \* "default_deserialize" (new/serialization.py) | "SchemaDeserializer" (simstore)
    dtables,   \* uuid -> the table its row is in
    dschema,   \* the schema entries of the table of the row
    drow,      \* the row: [uuid, vals], vals the value of every attribute
    dcache,    \* the cache / resolved set handed to the deserializer: uuid -> object or proxy
    ddct,      \* the attribute dict the deserializer returned, or the exception
    dresolved, \* what resolving the proxy of the lazy attribute returned
    dpc,       \* "lazies" | "row" | "done" | "resolved"
    \* ---- one open container: an object store, its cache and its proxies (Spec)
    layer,     \* "netcdfplus" (LoaderProxy, weak memo) | "simstore" (GenericLazyLoader)
    heap,      \* the live in-memory objects: instance -> [ref, lz, row]
    held,      \* the instances the caller holds a strong reference to
    index,     \* store.index: instance -> the integer identity it was saved or loaded under
    cells,     \* the variables of the store: row (identity + 1) -> [ref, lz], the object cells
    weak,      \* the cache's weak index: identity -> live instance
    hot,       \* the cache's ring of strong references, most recently used last
    stack,     \* the save calls in progress, innermost last
    nextInst,  \* the next instance number
    \* ---- the proxies of two stores and what they resolve to (SpecProxy)
    pmiss,     \* what store[idx] does for an identity without a row: "raise" | "None"
    pcache,    \* the caches of the stores: <<store, idx>> -> the live instance of the row
    pprox,     \* the proxies: proxy -> its subject (weak) or _loaded_object, 0 if none
    pheld,     \* the instances the caller holds a strong reference to
    pout,      \* the last access of the caller: [op, arg, raised, value]
    \* ---- NetCDFPlus.save of objects, lists and tuples (SpecSave)
    nref,      \* the objects of a storable class: object -> the value of its 'obj.' attribute
    nrows,     \* the rows of the store: the objects saved, by identity
    nindex,    \* store.index: object -> the identity assigned to it
    nout,      \* the last call of the caller: [op, arg, raised]
    \* ---- one variable of logical type 'index' and its delegates (SpecVar)
    vmaskable, \* whether the variable was created with maskable=True
    vkeys,     \* store.index: saved object -> its integer identity
    vcells,    \* the cells of the netCDF variable, row by row
    vout,      \* the last call of the caller: [op, raised, value]
    \* ---- reconstructing one object from its dictionary (SpecRec)
    rcaller,   \* "deserialize" (new/serialization_helpers.py) | "SchemaDeserializer" (simstore)
    rcls,      \* the class of the object: its constructor and its restore switches
    rdct,      \* the dictionary handed to cls.from_dict, or None
    rres,      \* what the caller got back
    rpc,       \* "idle" | "call" | "done"
    \* ---- attribute handlers of a schema (SpecTypes)
    tlayer,    \* "Serialization" (new/serialization.py) | "simstore" (experimental/simstore)
    tentries,  \* the schema entries (attr, type_name) of the table
    tcustom,   \* class_info of the table: has it a serializer, a deserializer of its own
    tser,      \* the serializer's handlers: attr -> handler, None before they are built
    tdeser,    \* the deserializer's handlers
    tout,      \* the last operation and what it gave
    tpc,       \* "idle" | "start" | "registered" | "failed"
    \* ---- dimensions and variables of a container (SpecDim)
    ncdims,    \* the dimensions of the file: name -> size, None for an unlimited one
    ncvars,    \* the variables of the file: name -> the names of its dimensions
    ncout,     \* the last call: was there a conflicting dimension, what was raised
    \* ---- opening a container (SpecOpen)
    ofile,     \* the file at the path: None when there is none, else its dimensions and rows
    ostorage,  \* the open NetCDFPlus object: None, or <<"open", mode, its stores>>
    oout,      \* the last call: the mode asked for, whether the file existed, what was raised
    \* ---- lazily loaded attributes (SpecLazy)
    zlazy,     \* instance -> its _lazy dict: what the descriptor holds for the attribute, if set
    zout,      \* the last access through the descriptor
    \* ---- named objects (SpecName)
    m_name,    \* object -> _name
    m_fixed,   \* object -> _name_fixed
    m_at,      \* object -> the .name it had when fix_name() was called, None before
    m_out,     \* the last call and what it raised
    \* ---- observing the creation of storable objects (SpecObs)
    observe_objects,  \* StorableObject.observe_objects
    b_init,           \* is the counting __init__ installed on StorableObject
    b_weak_cache,     \* StorableObject._weak_cache: the live objects it holds
    b_weak_index,     \* StorableObject._weak_index
    b_alive,          \* live object -> was observe_objects True when it was constructed
    b_next,           \* the next object to be constructed
    b_out,            \* the last call: [op, active, raised]
    \* ---- sample sets (SpecSet)
    svariant,  \* "openpathsampling" (openpathsampling/sample.py) | "opentis" (opentis/sample.py)
    sset,      \* the SampleSet: samples, ensemble_dict, replica_dict
    snew,      \* the SampleSet the last apply_samples returned, None if it returned none
    sout,      \* the last call: [op, raised]
    \* ---- the closure of a load (SpecClosure)
    cargs,     \* the call get_all_uuids_loading(uuid_list, backend, schema, existing_uuids)
    cloop,     \* its local variables, the number of loop iterations so far, and where it is
    \* ---- a direct simulation (SpecSim)
    simulation,  \* the DirectSimulation: transition_count and flux_events
    run_locals,  \* the local variables of run(n_steps), and where it is
    \* ---- a sparse histogram (SpecHist)
    hist,        \* the SparseHistogram: count and _histogram
    hcall,       \* the calls made so far and what the last one returned
    \* ---- a TransformedDict (SpecRehash)
    tdict,       \* the TransformedDict: store, hash_representatives, hash_function
    rehashed,    \* what the last rehash was called on, with, and returned
    \* ---- the dependencies of a bare JSON text (SpecDeps)
    dep_x,       \* the structured value given to to_bare_json
    dep_uuids    \* what find_dependent_uuids returned for its JSON text

jsonVars == <<jobj, jpath, jjson, jres, jpc>>

loadVars == <<lcaller, lstore, lroots, uuid_list, known_uuids, all_table_rows, lazy,
              dependencies, dag, order, new_uuids, lproxies, lerr, lpc>>

deserVars == <<dcaller, dtables, dschema, drow, dcache, ddct, dresolved, dpc>>

storeVars == <<layer, heap, held, index, cells, weak, hot, stack, nextInst>>

proxyVars == <<pmiss, pcache, pprox, pheld, pout>>

saveVars == <<nref, nrows, nindex, nout>>

varVars == <<vmaskable, vkeys, vcells, vout>>

recVars == <<rcaller, rcls, rdct, rres, rpc>>

typesVars == <<tlayer, tentries, tcustom, tser, tdeser, tout, tpc>>

dimVars == <<ncdims, ncvars, ncout>>

openVars == <<ofile, ostorage, oout>>

lazyVars == <<zlazy, zout>>

nameVars == <<m_name, m_fixed, m_at, m_out>>

obsVars == <<observe_objects, b_init, b_weak_cache, b_weak_index, b_alive,
             b_next, b_out>>

setVars == <<svariant, sset, snew, sout>>

closVars == <<cargs, cloop>>

simVars == <<simulation, run_locals>>

histVars == <<hist, hcall>>

tdVars == <<tdict, rehashed>>

depsVars == <<dep_x, dep_uuids>>

vars == <<jsonVars, loadVars, deserVars, storeVars, proxyVars, saveVars,
          varVars, recVars, typesVars, dimVars, openVars, lazyVars, nameVars,
          obsVars, setVars, closVars, simVars, histVars, tdVars, depsVars>>

None == <<"none">>

\* The values a group of variables keeps under the specifications that do not use it.
JsonIdle ==
    /\ jobj = None
    /\ jpath = "idle"
    /\ jjson = None
    /\ jres = None
    /\ jpc = "idle"

LoadIdle ==
    /\ lcaller = "idle"
    /\ lstore = <<>>
    /\ lroots = {}
    /\ uuid_list = {}
    /\ known_uuids = {}
    /\ all_table_rows = {}
    /\ lazy = {}
    /\ dependencies = <<>>
    /\ dag = {}
    /\ order = <<>>
    /\ new_uuids = <<>>
    /\ lproxies = {}
    /\ lerr = "none"
    /\ lpc = "idle"

StoreIdle ==
    /\ layer = "idle"
    /\ heap = <<>>
    /\ held = {}
    /\ index = <<>>
    /\ cells = <<>>
    /\ weak = <<>>
    /\ hot = <<>>
    /\ stack = <<>>
    /\ nextInst = 0

DeserIdle ==
    /\ dcaller = "idle"
    /\ dtables = <<>>
    /\ dschema = <<>>
    /\ drow = None
    /\ dcache = <<>>
    /\ ddct = None
    /\ dresolved = None
    /\ dpc = "idle"

ProxyIdle ==
    /\ pmiss = "idle"
    /\ pcache = <<>>
    /\ pprox = <<>>
    /\ pheld = {}
    /\ pout = None

SaveIdle ==
    /\ nref = <<>>
    /\ nrows = <<>>
    /\ nindex = <<>>
    /\ nout = None

VarIdle ==
    /\ vmaskable = FALSE
    /\ vkeys = <<>>
    /\ vcells = <<>>
    /\ vout = None

RecIdle ==
    /\ rcaller = "idle"
    /\ rcls = <<>>
    /\ rdct = None
    /\ rres = None
    /\ rpc = "idle"

TypesIdle ==
    /\ tlayer = "idle"
    /\ tentries = <<>>
    /\ tcustom = None
    /\ tser = None
    /\ tdeser = None
    /\ tout = None
    /\ tpc = "idle"

DimIdle ==
    /\ ncdims = <<>>
    /\ ncvars = <<>>
    /\ ncout = None

OpenIdle ==
    /\ ofile = None
    /\ ostorage = None
    /\ oout = None

LazyIdle ==
    /\ zlazy = <<>>
    /\ zout = None

NameIdle ==
    /\ m_name = <<>>
    /\ m_fixed = <<>>
    /\ m_at = <<>>
    /\ m_out = None

ObsIdle ==
    /\ observe_objects = FALSE
    /\ b_init = FALSE
    /\ b_weak_cache = {}
    /\ b_weak_index = 0
    /\ b_alive = <<>>
    /\ b_next = 0
    /\ b_out = None

SetIdle ==
    /\ svariant = "idle"
    /\ sset = None
    /\ snew = None
    /\ sout = None

ClosIdle ==
    /\ cargs = None
    /\ cloop = None

SimIdle ==
    /\ simulation = None
    /\ run_locals = None

HistIdle ==
    /\ hist = None
    /\ hcall = None

TdIdle ==
    /\ tdict = None
    /\ rehashed = None

DepsIdle ==
    /\ dep_x = None
    /\ dep_uuids = None

\* The variables a specification leaves alone, and the values they keep under it.
exceptJson == <<loadVars, deserVars, storeVars, proxyVars, saveVars, varVars,
                recVars, typesVars, dimVars, openVars, lazyVars, nameVars,
                obsVars, setVars, closVars, simVars, histVars, tdVars,
                depsVars>>

exceptLoad == <<jsonVars, deserVars, storeVars, proxyVars, saveVars, varVars,
                recVars, typesVars, dimVars, openVars, lazyVars, nameVars,
                obsVars, setVars, closVars, simVars, histVars, tdVars,
                depsVars>>

exceptDeser == <<jsonVars, loadVars, storeVars, proxyVars, saveVars, varVars,
                 recVars, typesVars, dimVars, openVars, lazyVars, nameVars,
                 obsVars, setVars, closVars, simVars, histVars, tdVars,
                 depsVars>>

exceptStore == <<jsonVars, loadVars, deserVars, proxyVars, saveVars, varVars,
                 recVars, typesVars, dimVars, openVars, lazyVars, nameVars,
                 obsVars, setVars, closVars, simVars, histVars, tdVars,
                 depsVars>>

exceptProxy == <<jsonVars, loadVars, deserVars, storeVars, saveVars, varVars,
                 recVars, typesVars, dimVars, openVars, lazyVars, nameVars,
                 obsVars, setVars, closVars, simVars, histVars, tdVars,
                 depsVars>>

exceptSave == <<jsonVars, loadVars, deserVars, storeVars, proxyVars, varVars,
                recVars, typesVars, dimVars, openVars, lazyVars, nameVars,
                obsVars, setVars, closVars, simVars, histVars, tdVars,
                depsVars>>

exceptVar == <<jsonVars, loadVars, deserVars, storeVars, proxyVars, saveVars,
               recVars, typesVars, dimVars, openVars, lazyVars, nameVars,
               obsVars, setVars, closVars, simVars, histVars, tdVars,
               depsVars>>

exceptRec == <<jsonVars, loadVars, deserVars, storeVars, proxyVars, saveVars,
               varVars, typesVars, dimVars, openVars, lazyVars, nameVars,
               obsVars, setVars, closVars, simVars, histVars, tdVars,
               depsVars>>

exceptTypes == <<jsonVars, loadVars, deserVars, storeVars, proxyVars,
                 saveVars, varVars, recVars, dimVars, openVars, lazyVars,
                 nameVars, obsVars, setVars, closVars, simVars, histVars,
                 tdVars, depsVars>>

exceptDim == <<jsonVars, loadVars, deserVars, storeVars, proxyVars, saveVars,
               varVars, recVars, typesVars, openVars, lazyVars, nameVars,
               obsVars, setVars, closVars, simVars, histVars, tdVars,
               depsVars>>

exceptOpen == <<jsonVars, loadVars, deserVars, storeVars, proxyVars,
                saveVars, varVars, recVars, typesVars, dimVars, lazyVars,
                nameVars, obsVars, setVars, closVars, simVars, histVars,
                tdVars, depsVars>>

exceptLazy == <<jsonVars, loadVars, deserVars, storeVars, proxyVars,
                saveVars, varVars, recVars, typesVars, dimVars, openVars,
                nameVars, obsVars, setVars, closVars, simVars, histVars,
                tdVars, depsVars>>

exceptName == <<jsonVars, loadVars, deserVars, storeVars, proxyVars,
                saveVars, varVars, recVars, typesVars, dimVars, openVars,
                lazyVars, obsVars, setVars, closVars, simVars, histVars,
                tdVars, depsVars>>

exceptObs == <<jsonVars, loadVars, deserVars, storeVars, proxyVars, saveVars,
               varVars, recVars, typesVars, dimVars, openVars, lazyVars,
               nameVars, setVars, closVars, simVars, histVars, tdVars,
               depsVars>>

exceptSet == <<jsonVars, loadVars, deserVars, storeVars, proxyVars, saveVars,
               varVars, recVars, typesVars, dimVars, openVars, lazyVars,
               nameVars, obsVars, closVars, simVars, histVars, tdVars,
               depsVars>>

exceptClos == <<jsonVars, loadVars, deserVars, storeVars, proxyVars,
                saveVars, varVars, recVars, typesVars, dimVars, openVars,
                lazyVars, nameVars, obsVars, setVars, simVars, histVars,
                tdVars, depsVars>>

exceptSim == <<jsonVars, loadVars, deserVars, storeVars, proxyVars, saveVars,
               varVars, recVars, typesVars, dimVars, openVars, lazyVars,
               nameVars, obsVars, setVars, closVars, histVars, tdVars,
               depsVars>>

exceptHist == <<jsonVars, loadVars, deserVars, storeVars, proxyVars,
                saveVars, varVars, recVars, typesVars, dimVars, openVars,
                lazyVars, nameVars, obsVars, setVars, closVars, simVars,
                tdVars, depsVars>>

exceptTd == <<jsonVars, loadVars, deserVars, storeVars, proxyVars, saveVars,
              varVars, recVars, typesVars, dimVars, openVars, lazyVars,
              nameVars, obsVars, setVars, closVars, simVars, histVars,
              depsVars>>

exceptDeps == <<jsonVars, loadVars, deserVars, storeVars, proxyVars,
                saveVars, varVars, recVars, typesVars, dimVars, openVars,
                lazyVars, nameVars, obsVars, setVars, closVars, simVars,
                histVars, tdVars>>

OnlyJson == LoadIdle /\ DeserIdle /\ StoreIdle /\ ProxyIdle /\ SaveIdle /\
            VarIdle /\ RecIdle /\ TypesIdle /\ DimIdle /\ OpenIdle /\
            LazyIdle /\ NameIdle /\ ObsIdle /\ SetIdle /\ ClosIdle /\
            SimIdle /\ HistIdle /\ TdIdle /\ DepsIdle

OnlyLoad == JsonIdle /\ DeserIdle /\ StoreIdle /\ ProxyIdle /\ SaveIdle /\
            VarIdle /\ RecIdle /\ TypesIdle /\ DimIdle /\ OpenIdle /\
            LazyIdle /\ NameIdle /\ ObsIdle /\ SetIdle /\ ClosIdle /\
            SimIdle /\ HistIdle /\ TdIdle /\ DepsIdle

OnlyDeser == JsonIdle /\ LoadIdle /\ StoreIdle /\ ProxyIdle /\ SaveIdle /\
             VarIdle /\ RecIdle /\ TypesIdle /\ DimIdle /\ OpenIdle /\
             LazyIdle /\ NameIdle /\ ObsIdle /\ SetIdle /\ ClosIdle /\
             SimIdle /\ HistIdle /\ TdIdle /\ DepsIdle

OnlyStore == JsonIdle /\ LoadIdle /\ DeserIdle /\ ProxyIdle /\ SaveIdle /\
             VarIdle /\ RecIdle /\ TypesIdle /\ DimIdle /\ OpenIdle /\
             LazyIdle /\ NameIdle /\ ObsIdle /\ SetIdle /\ ClosIdle /\
             SimIdle /\ HistIdle /\ TdIdle /\ DepsIdle

OnlyProxy == JsonIdle /\ LoadIdle /\ DeserIdle /\ StoreIdle /\ SaveIdle /\
             VarIdle /\ RecIdle /\ TypesIdle /\ DimIdle /\ OpenIdle /\
             LazyIdle /\ NameIdle /\ ObsIdle /\ SetIdle /\ ClosIdle /\
             SimIdle /\ HistIdle /\ TdIdle /\ DepsIdle

OnlySave == JsonIdle /\ LoadIdle /\ DeserIdle /\ StoreIdle /\ ProxyIdle /\
            VarIdle /\ RecIdle /\ TypesIdle /\ DimIdle /\ OpenIdle /\
            LazyIdle /\ NameIdle /\ ObsIdle /\ SetIdle /\ ClosIdle /\
            SimIdle /\ HistIdle /\ TdIdle /\ DepsIdle

OnlyVar == JsonIdle /\ LoadIdle /\ DeserIdle /\ StoreIdle /\ ProxyIdle /\
           SaveIdle /\ RecIdle /\ TypesIdle /\ DimIdle /\ OpenIdle /\
           LazyIdle /\ NameIdle /\ ObsIdle /\ SetIdle /\ ClosIdle /\
           SimIdle /\ HistIdle /\ TdIdle /\ DepsIdle

OnlyRec == JsonIdle /\ LoadIdle /\ DeserIdle /\ StoreIdle /\ ProxyIdle /\
           SaveIdle /\ VarIdle /\ TypesIdle /\ DimIdle /\ OpenIdle /\
           LazyIdle /\ NameIdle /\ ObsIdle /\ SetIdle /\ ClosIdle /\
           SimIdle /\ HistIdle /\ TdIdle /\ DepsIdle

OnlyTypes == JsonIdle /\ LoadIdle /\ DeserIdle /\ StoreIdle /\ ProxyIdle /\
             SaveIdle /\ VarIdle /\ RecIdle /\ DimIdle /\ OpenIdle /\
             LazyIdle /\ NameIdle /\ ObsIdle /\ SetIdle /\ ClosIdle /\
             SimIdle /\ HistIdle /\ TdIdle /\ DepsIdle

OnlyDim == JsonIdle /\ LoadIdle /\ DeserIdle /\ StoreIdle /\ ProxyIdle /\
           SaveIdle /\ VarIdle /\ RecIdle /\ TypesIdle /\ OpenIdle /\
           LazyIdle /\ NameIdle /\ ObsIdle /\ SetIdle /\ ClosIdle /\
           SimIdle /\ HistIdle /\ TdIdle /\ DepsIdle

OnlyOpen == JsonIdle /\ LoadIdle /\ DeserIdle /\ StoreIdle /\ ProxyIdle /\
            SaveIdle /\ VarIdle /\ RecIdle /\ TypesIdle /\ DimIdle /\
            LazyIdle /\ NameIdle /\ ObsIdle /\ SetIdle /\ ClosIdle /\
            SimIdle /\ HistIdle /\ TdIdle /\ DepsIdle

OnlyLazy == JsonIdle /\ LoadIdle /\ DeserIdle /\ StoreIdle /\ ProxyIdle /\
            SaveIdle /\ VarIdle /\ RecIdle /\ TypesIdle /\ DimIdle /\
            OpenIdle /\ NameIdle /\ ObsIdle /\ SetIdle /\ ClosIdle /\
            SimIdle /\ HistIdle /\ TdIdle /\ DepsIdle

OnlyName == JsonIdle /\ LoadIdle /\ DeserIdle /\ StoreIdle /\ ProxyIdle /\
            SaveIdle /\ VarIdle /\ RecIdle /\ TypesIdle /\ DimIdle /\
            OpenIdle /\ LazyIdle /\ ObsIdle /\ SetIdle /\ ClosIdle /\
            SimIdle /\ HistIdle /\ TdIdle /\ DepsIdle

OnlyObs == JsonIdle /\ LoadIdle /\ DeserIdle /\ StoreIdle /\ ProxyIdle /\
           SaveIdle /\ VarIdle /\ RecIdle /\ TypesIdle /\ DimIdle /\
           OpenIdle /\ LazyIdle /\ NameIdle /\ SetIdle /\ ClosIdle /\
           SimIdle /\ HistIdle /\ TdIdle /\ DepsIdle

OnlySet == JsonIdle /\ LoadIdle /\ DeserIdle /\ StoreIdle /\ ProxyIdle /\
           SaveIdle /\ VarIdle /\ RecIdle /\ TypesIdle /\ DimIdle /\
           OpenIdle /\ LazyIdle /\ NameIdle /\ ObsIdle /\ ClosIdle /\
           SimIdle /\ HistIdle /\ TdIdle /\ DepsIdle

OnlyClos == JsonIdle /\ LoadIdle /\ DeserIdle /\ StoreIdle /\ ProxyIdle /\
            SaveIdle /\ VarIdle /\ RecIdle /\ TypesIdle /\ DimIdle /\
            OpenIdle /\ LazyIdle /\ NameIdle /\ ObsIdle /\ SetIdle /\
            SimIdle /\ HistIdle /\ TdIdle /\ DepsIdle

OnlySim == JsonIdle /\ LoadIdle /\ DeserIdle /\ StoreIdle /\ ProxyIdle /\
           SaveIdle /\ VarIdle /\ RecIdle /\ TypesIdle /\ DimIdle /\
           OpenIdle /\ LazyIdle /\ NameIdle /\ ObsIdle /\ SetIdle /\
           ClosIdle /\ HistIdle /\ TdIdle /\ DepsIdle

OnlyHist == JsonIdle /\ LoadIdle /\ DeserIdle /\ StoreIdle /\ ProxyIdle /\
            SaveIdle /\ VarIdle /\ RecIdle /\ TypesIdle /\ DimIdle /\
            OpenIdle /\ LazyIdle /\ NameIdle /\ ObsIdle /\ SetIdle /\
            ClosIdle /\ SimIdle /\ TdIdle /\ DepsIdle

OnlyTd == JsonIdle /\ LoadIdle /\ DeserIdle /\ StoreIdle /\ ProxyIdle /\
          SaveIdle /\ VarIdle /\ RecIdle /\ TypesIdle /\ DimIdle /\
          OpenIdle /\ LazyIdle /\ NameIdle /\ ObsIdle /\ SetIdle /\
          ClosIdle /\ SimIdle /\ HistIdle /\ DepsIdle

OnlyDeps == JsonIdle /\ LoadIdle /\ DeserIdle /\ StoreIdle /\ ProxyIdle /\
            SaveIdle /\ VarIdle /\ RecIdle /\ TypesIdle /\ DimIdle /\
            OpenIdle /\ LazyIdle /\ NameIdle /\ ObsIdle /\ SetIdle /\
            ClosIdle /\ SimIdle /\ HistIdle /\ TdIdle

(***************************************************************************)
(* Python values.  <<"int", n>>, <<"str", chars>> (chars a sequence of     *)
(* one-character strings), <<"none">>, <<"obj", u>> (a storable object     *)
(* whose __uuid__ is the long u), <<"list", items>>, <<"dict", f>>,        *)
(* <<"long", n>> and <<"raise", name>> for a raised exception.             *)
(***************************************************************************)
Tag(v) == v[1]

IsRaise(v) == Tag(v) = "raise"

Digits == <<"0", "1", "2", "3", "4", "5", "6", "7", "8", "9">>

DigitValue(c) == (CHOOSE i \in 1..10 : Digits[i] = c) - 1

IsDigit(c) == \E i \in 1..10 : Digits[i] = c

\* str(n) of a non-negative long: its decimal digits
RECURSIVE str(_)
str(n) == IF n < 10 THEN <<Digits[n + 1]>> ELSE Append(str(n \div 10), Digits[(n % 10) + 1])

\* long(s) of a character sequence: its value, or ValueError when s is no numeral
RECURSIVE long(_)
long(s) ==
    IF Len(s) = 0 \/ \E i \in 1..Len(s) : ~IsDigit(s[i]) THEN <<"raise", "ValueError">>
    ELSE IF Len(s) = 1 THEN <<"long", DigitValue(s[1])>>
    ELSE <<"long", 10 * long(SubSeq(s, 1, Len(s) - 1))[2] + DigitValue(s[Len(s)])>>

has_uuid(obj) == Tag(obj) = "obj"

get_uuid(obj) == str(obj[2])

encode_uuid(uuid) == <<"U", "U", "I", "D", "(">> \o uuid \o <<")">>

decode_uuid(uuid_str) == long(SubSeq(uuid_str, 6, Len(uuid_str) - 1))

is_uuid_string(obj) ==
    /\ Tag(obj) = "str"
    /\ SubSeq(obj[2], 1, IF Len(obj[2]) < 5 THEN Len(obj[2]) ELSE 5) = <<"U", "U", "I", "D", "(">>
    /\ Len(obj[2]) > 0
    /\ obj[2][Len(obj[2])] = ")"

is_mappable(obj) == Tag(obj) = "dict"

is_iterable(obj) == Tag(obj) = "list"

RECURSIVE replace_uuid(_)
replace_uuid(obj) ==
    IF has_uuid(obj) THEN <<"str", encode_uuid(get_uuid(obj))>>
    ELSE IF is_mappable(obj) THEN <<"dict", [k \in DOMAIN obj[2] |-> replace_uuid(obj[2][k])]>>
    ELSE IF is_iterable(obj) THEN <<"list", [i \in 1..Len(obj[2]) |-> replace_uuid(obj[2][i])]>>
    ELSE obj

(***************************************************************************)
(* ujson.dumps / ujson.loads: the JSON text is kept as its parse tree,     *)
(* <<"jnum", n>>, <<"jstr", chars>>, <<"jnull">>, <<"jarr", items>>,       *)
(* <<"jobj", members>>.                                                    *)
(***************************************************************************)
RECURSIVE ujson_dumps(_)
ujson_dumps(v) ==
    CASE Tag(v) = "int" -> <<"jnum", v[2]>>
      [] Tag(v) = "str" -> <<"jstr", v[2]>>
      [] Tag(v) = "none" -> <<"jnull">>
      [] Tag(v) = "list" -> <<"jarr", [i \in 1..Len(v[2]) |-> ujson_dumps(v[2][i])]>>
      [] Tag(v) = "dict" -> <<"jobj", [k \in DOMAIN v[2] |-> ujson_dumps(v[2][k])]>>

RECURSIVE ujson_loads(_)
ujson_loads(j) ==
    CASE Tag(j) = "jnum" -> <<"int", j[2]>>
      [] Tag(j) = "jstr" -> <<"str", j[2]>>
      [] Tag(j) = "jnull" -> None
      [] Tag(j) = "jarr" -> <<"list", [i \in 1..Len(j[2]) |-> ujson_loads(j[2][i])]>>
      [] Tag(j) = "jobj" -> <<"dict", [k \in DOMAIN j[2] |-> ujson_loads(j[2][k])]>>

\* A storable object is [cls, uuid, attrs]; to_dict returns its public attributes.
to_dict(o) == <<"dict", o.attrs>>

to_dict_with_uuids(obj) == replace_uuid(to_dict(obj))

to_bare_json(obj) == ujson_dumps(replace_uuid(obj))

\* "pass  # TODO": the function returns None whatever it is given
from_bare_json(json_str, existing_uuids) == None

ClassKeys == {"__module__", "__class__"}

to_json_obj(obj) ==
    LET dct == to_dict_with_uuids(obj)[2]
        upd == [k \in DOMAIN dct \cup ClassKeys |->
                  IF k = "__module__" THEN <<"str", obj.cls[1]>>
                  ELSE IF k = "__class__" THEN <<"str", obj.cls[2]>>
                  ELSE dct[k]]
    IN  ujson_dumps(<<"dict", upd>>)

\* The loop of from_dict_with_uuids looks at the values of dct only, one by one.
FromDictValue(value, existing_uuids) ==
    IF is_uuid_string(value)
    THEN LET u == decode_uuid(value[2])
         IN  IF IsRaise(u) THEN u
             ELSE IF u[2] \in DOMAIN existing_uuids THEN existing_uuids[u[2]]
             ELSE <<"raise", "KeyError">>
    ELSE value

from_dict_with_uuids(dct, existing_uuids) ==
    LET new == [k \in DOMAIN dct |-> FromDictValue(dct[k], existing_uuids)]
    IN  IF \E k \in DOMAIN new : IsRaise(new[k])
        THEN new[CHOOSE k \in DOMAIN new : IsRaise(new[k])]
        ELSE <<"dict", new>>

\* cls.from_dict(dct): the constructor arguments and the other attributes are all restored
from_dict(cls, dct) == <<"new", cls, dct>>

\* dct.pop raises AttributeError when the JSON text holds no object, KeyError without the key
from_json_obj(json_str, existing_uuids) ==
    LET loaded == ujson_loads(json_str)
    IN  IF Tag(loaded) # "dict" THEN <<"raise", "AttributeError">>
        ELSE IF ~(ClassKeys \subseteq DOMAIN loaded[2]) THEN <<"raise", "KeyError">>
        ELSE LET cls == <<loaded[2]["__module__"][2], loaded[2]["__class__"][2]>>
                 rest == [k \in DOMAIN loaded[2] \ ClassKeys |-> loaded[2][k]]
                 dct == from_dict_with_uuids(rest, existing_uuids)
             IN  IF IsRaise(dct) THEN dct ELSE from_dict(cls, dct[2])

(***************************************************************************)
(* SpecJson: the inputs of the JSON helpers.                               *)
(***************************************************************************)
\* the largest __uuid__ of an embedded storable object
MaxUuid == 2

\* the longest list inside an attribute value
MaxListLen == 2

JsonUuids == 1..MaxUuid

JsonAtoms ==
    {<<"int", 0>>, <<"str", <<"a">>>>, None} \cup {<<"obj", u>> : u \in JsonUuids}

RECURSIVE SeqsUpTo(_, _)
SeqsUpTo(S, n) ==
    IF n = 0 THEN {<<>>}
    ELSE SeqsUpTo(S, n - 1) \cup {Append(s, x) : s \in SeqsUpTo(S, n - 1), x \in S}

JsonLists == {<<"list", s>> : s \in SeqsUpTo(JsonAtoms, MaxListLen)}

JsonDicts == {<<"dict", [k \in {"k"} |-> v]>> : v \in JsonAtoms \cup JsonLists}

JsonValues == JsonAtoms \cup JsonLists \cup JsonDicts

JsonClass == <<<<"m">>, <<"C">>>>

JsonObjects == {[cls |-> JsonClass, uuid |-> 0, attrs |-> [k \in {"a"} |-> v]] : v \in JsonValues}

\* the resolved set: every identity an input can refer to, keyed as decode_uuid returns it
ExistingUuids == [u \in JsonUuids |-> <<"obj", u>>]

InitJson ==
    /\ jpath \in {"obj", "bare"}
    /\ jobj \in (IF jpath = "obj" THEN JsonObjects ELSE JsonValues)
    /\ jjson = None
    /\ jres = None
    /\ jpc = "start"
    /\ OnlyJson

JsonSerializeObj ==
    /\ jpc = "start" /\ jpath = "obj"
    /\ jjson' = to_json_obj(jobj)
    /\ jpc' = "serialized"
    /\ UNCHANGED <<jobj, jpath, jres>>
    /\ UNCHANGED exceptJson

JsonSerializeBare ==
    /\ jpc = "start" /\ jpath = "bare"
    /\ jjson' = to_bare_json(jobj)
    /\ jpc' = "serialized"
    /\ UNCHANGED <<jobj, jpath, jres>>
    /\ UNCHANGED exceptJson

JsonDeserializeObj ==
    /\ jpc = "serialized" /\ jpath = "obj"
    /\ jres' = from_json_obj(jjson, ExistingUuids)
    /\ jpc' = "done"
    /\ UNCHANGED <<jobj, jpath, jjson>>
    /\ UNCHANGED exceptJson

JsonDeserializeBare ==
    /\ jpc = "serialized" /\ jpath = "bare"
    /\ jres' = from_bare_json(jjson, ExistingUuids)
    /\ jpc' = "done"
    /\ UNCHANGED <<jobj, jpath, jjson>>
    /\ UNCHANGED exceptJson

NextJson == JsonSerializeObj \/ JsonSerializeBare \/ JsonDeserializeObj \/ JsonDeserializeBare

SpecJson == InitJson /\ [][NextJson]_vars

(***************************************************************************)
(* C2  Round trip: deserializing what was serialized yields the original   *)
(* attribute values, embedded references at any depth being replaced by    *)
(* the referenced objects of the resolved set.                             *)
(***************************************************************************)
C2_RoundTrip ==
    jpc = "done" =>
        IF jpath = "obj"
        THEN Tag(jres) = "new" /\ jres[2] = jobj.cls /\ jres[3] = jobj.attrs
        ELSE jres = jobj

(***************************************************************************)
(* SpecLoad: a batch load.  get_all_uuids_loading collects the rows and    *)
(* the dependency dict, dependency_dag builds and checks the DAG,          *)
(* dag_reload_order orders it, and the nodes are reconstructed in that     *)
(* order.  The function deserialize is the second caller of the DAG.       *)
(***************************************************************************)
\* the uuids of the store
NumIds == 3

\* the most reference attributes the rows of one store hold together
MaxEdges == 3

\* the most uuids in the uuid_list of one load
MaxRoots == 2

Ids == 1..NumIds

RECURSIVE SubsetsUpTo(_, _)
SubsetsUpTo(S, n) ==
    IF n = 0 THEN {{}}
    ELSE LET smaller == SubsetsUpTo(S, n - 1)
         IN  smaller \cup {s \cup {x} : s \in smaller, x \in S}

\* an attribute of row f that holds uuid t: of type uuid / list_uuid / json_obj ("uuid") or lazy
RefAttrs == {<<f, t, kind>> : f \in Ids, t \in Ids, kind \in {"uuid", "lazy"}}

StoreOf(attrs) ==
    [u \in Ids |-> [strict |-> {a[2] : a \in {b \in attrs : b[1] = u /\ b[3] = "uuid"}},
                    lazy |-> {a[2] : a \in {b \in attrs : b[1] = u /\ b[3] = "lazy"}}]]

Stores == {StoreOf(attrs) : attrs \in SubsetsUpTo(RefAttrs, MaxEdges)}

\* uuids_from_table_row: (uuid, lazy, dependencies) of one row
uuids_from_table_row(row_uuid, table_row) ==
    [uuid |-> table_row.strict,
     lazy |-> table_row.lazy,
     dependencies |-> [u \in {row_uuid} |-> table_row.strict \cup table_row.lazy]]

\* dict.update
Update(d, e) == [k \in DOMAIN d \cup DOMAIN e |-> IF k \in DOMAIN e THEN e[k] ELSE d[k]]

\* nodes reachable from n over the edges E in one step or more
RECURSIVE ReachFrom(_, _, _)
ReachFrom(E, frontier, seen) ==
    LET next == {e[2] : e \in {d \in E : d[1] \in frontier}} \ seen
    IN  IF next = {} THEN seen ELSE ReachFrom(E, next, seen \cup next)

is_directed_acyclic_graph(E) == \A e \in E : e[1] \notin ReachFrom(E, {e[1]}, {})

DagNodes(E) == {e[1] : e \in E} \cup {e[2] : e \in E}

\* dependency_dag: the edges added for the entries with dependencies; RuntimeError on a cycle
dependency_dag(dependent_uuids, old_dag) ==
    LET added == {e \in (DOMAIN dependent_uuids) \X Ids : e[2] \in dependent_uuids[e[1]]}
        E == old_dag \cup added
    IN  [raised |-> ~is_directed_acyclic_graph(E), dag |-> E]

RECURSIVE Perms(_)
Perms(S) ==
    IF S = {} THEN {<<>>}
    ELSE UNION {{<<x>> \o p : p \in Perms(S \ {x})} : x \in S}

Pos(s, x) == CHOOSE i \in 1..Len(s) : s[i] = x

Reverse(s) == [i \in 1..Len(s) |-> s[Len(s) + 1 - i]]

\* networkx topological_sort: some order of the nodes with every edge pointing forward
topological_sort(E) ==
    {p \in Perms(DagNodes(E)) : \A e \in E : Pos(p, e[1]) < Pos(p, e[2])}

\* the order of topological_sort itself, dependents first
dag_reload_order_unreversed(sorted) == sorted

\* dag_reload_order: list(reversed(list(topological_sort(dag))))
dag_reload_order(sorted) == Reverse(sorted)

InitLoad ==
    /\ OnlyLoad
    /\ lcaller \in {"load", "deserialize"}
    /\ lstore \in Stores
    /\ lroots \in SubsetsUpTo(Ids, MaxRoots) \ {{}}
    /\ uuid_list = lroots
    /\ known_uuids = {}
    /\ all_table_rows = {}
    /\ lazy = {}
    /\ dependencies = <<>>
    /\ dag = {}
    /\ order = <<>>
    /\ new_uuids = <<>>
    /\ lproxies = {}
    /\ lerr = "none"
    /\ lpc = IF lcaller = "load" THEN "closure" ELSE "deserialize"

\* get_all_uuids_loading, one round of "while uuid_list"
ClosureRound ==
    /\ lpc = "closure" /\ uuid_list # {}
    /\ LET new == uuid_list \ known_uuids
           rows == [u \in new |-> uuids_from_table_row(u, lstore[u])]
       IN  /\ uuid_list' = UNION {rows[u].uuid : u \in new}
           /\ lazy' = lazy \cup UNION {rows[u].lazy : u \in new}
           /\ dependencies' = Update(dependencies, [u \in new |-> rows[u].dependencies[u]])
           /\ all_table_rows' = all_table_rows \cup new
           /\ known_uuids' = known_uuids \cup new
    /\ UNCHANGED <<lcaller, lstore, lroots, dag, order, new_uuids, lproxies, lerr, lpc>>
    /\ UNCHANGED exceptLoad

\* get_all_uuids_loading after the loop: the rows and the lazy uuids are grouped by
\* row_to_table, lambda r: uuid_to_table[r.uuid]; a lazy uuid is a string and has no .uuid
ClosureReturn ==
    /\ lpc = "closure" /\ uuid_list = {}
    /\ IF lazy # {}
       THEN lerr' = "AttributeError" /\ lpc' = "raised"
       ELSE lerr' = lerr /\ lpc' = "dag"
    /\ UNCHANGED <<lcaller, lstore, lroots, uuid_list, known_uuids, all_table_rows, lazy,
                   dependencies, dag, order, new_uuids, lproxies>>
    /\ UNCHANGED exceptLoad

\* the DAG of the dependencies the closure returned
LoadDag ==
    /\ lpc = "dag"
    /\ LET r == dependency_dag(dependencies, {})
       IN  IF r.raised
           THEN lerr' = "RuntimeError" /\ lpc' = "raised" /\ dag' = dag
           ELSE lerr' = lerr /\ lpc' = "lazies" /\ dag' = r.dag
    /\ UNCHANGED <<lcaller, lstore, lroots, uuid_list, known_uuids, all_table_rows, lazy,
                   dependencies, order, new_uuids, lproxies>>
    /\ UNCHANGED exceptLoad

\* a proxy for every lazy uuid the closure returned that is not known yet
make_all_lazies(lazies, known) == lazies \ known

LoadLazies ==
    /\ lpc = "lazies"
    /\ lproxies' = lproxies \cup make_all_lazies(lazy, known_uuids)
    /\ lpc' = "order"
    /\ UNCHANGED <<lcaller, lstore, lroots, uuid_list, known_uuids, all_table_rows, lazy,
                   dependencies, dag, order, new_uuids, lerr>>
    /\ UNCHANGED exceptLoad

\* the reload order of the DAG
LoadOrder ==
    /\ lpc = "order"
    /\ \E sorted \in topological_sort(dag) : order' = dag_reload_order(sorted)
    /\ lpc' = "reconstruct"
    /\ UNCHANGED <<lcaller, lstore, lroots, uuid_list, known_uuids, all_table_rows, lazy,
                   dependencies, dag, new_uuids, lproxies, lerr>>
    /\ UNCHANGED exceptLoad

InResolved(u) == \E i \in 1..Len(new_uuids) : new_uuids[i] = u

\* the reconstruction of the next node: from_dict_with_uuids looks every reference of
\* its row up in the resolved set and raises KeyError for one that is not in it
LoadReconstruct ==
    /\ lpc = "reconstruct" /\ order # <<>>
    /\ LET node == Head(order)
           refs == IF node \in DOMAIN dependencies THEN dependencies[node] ELSE {}
       IN  IF \A t \in refs : InResolved(t)
           THEN new_uuids' = Append(new_uuids, node) /\ order' = Tail(order)
                /\ lerr' = lerr /\ lpc' = lpc
           ELSE new_uuids' = new_uuids /\ order' = order
                /\ lerr' = "KeyError" /\ lpc' = "raised"
    /\ UNCHANGED <<lcaller, lstore, lroots, uuid_list, known_uuids, all_table_rows, lazy,
                   dependencies, dag, lproxies>>
    /\ UNCHANGED exceptLoad

LoadDone ==
    /\ lpc = "reconstruct" /\ order = <<>>
    /\ lpc' = "done"
    /\ UNCHANGED <<lcaller, lstore, lroots, uuid_list, known_uuids, all_table_rows, lazy,
                   dependencies, dag, order, new_uuids, lproxies, lerr>>
    /\ UNCHANGED exceptLoad

\* deserialize(uuid_json_dict, lazies, storage), first statement: reconstruction_dag.
\* uuid_json_dict holds the JSON of the rows of lroots; find_dependent_uuids returns
\* the uuids of the markers in it.
find_dependent_uuids_of(u) == lstore[u].strict \cup lstore[u].lazy

reconstruction_dag(keys, old_dag) ==
    dependency_dag([u \in keys |-> find_dependent_uuids_of(u)], old_dag)

DeserializeDag ==
    /\ lpc = "deserialize"
    /\ LET r == reconstruction_dag(lroots, {})
       IN  IF r.raised
           THEN lerr' = "RuntimeError" /\ lpc' = "raised" /\ dag' = dag
           ELSE lerr' = lerr /\ lpc' = "check_dag" /\ dag' = r.dag
    /\ UNCHANGED <<lcaller, lstore, lroots, uuid_list, known_uuids, all_table_rows, lazy,
                   dependencies, order, new_uuids, lproxies>>
    /\ UNCHANGED exceptLoad

\* deserialize, second statement: check_dag is a name the module does not define
DeserializeCheckDag ==
    /\ lpc = "check_dag"
    /\ lerr' = "NameError" /\ lpc' = "raised"
    /\ UNCHANGED <<lcaller, lstore, lroots, uuid_list, known_uuids, all_table_rows, lazy,
                   dependencies, dag, order, new_uuids, lproxies>>
    /\ UNCHANGED exceptLoad

NextLoad ==
    \/ ClosureRound
    \/ ClosureReturn
    \/ LoadDag
    \/ LoadLazies
    \/ LoadOrder
    \/ LoadReconstruct
    \/ LoadDone
    \/ DeserializeDag
    \/ DeserializeCheckDag

SpecLoad == InitLoad /\ [][NextLoad]_vars

(***************************************************************************)
(* C7  Acyclic enforcement: a load whose discovered reference edges hold   *)
(* a cycle (through strict or lazy references) ends with the RuntimeError  *)
(* of dependency_dag, and no object and no proxy has been made by then.    *)
(***************************************************************************)
DiscoveredEdges ==
    IF lcaller = "load"
    THEN {e \in (DOMAIN dependencies) \X Ids : e[2] \in dependencies[e[1]]}
    ELSE reconstruction_dag(lroots, {}).dag

LoadEnded == lpc \in {"raised", "done"}

C7_CyclicLoadFails ==
    (LoadEnded /\ ~is_directed_acyclic_graph(DiscoveredEdges)) =>
        (lerr = "RuntimeError" /\ new_uuids = <<>> /\ lproxies = {})

(***************************************************************************)
(* C8  Dependency-ordered reconstruction: in the reload order every uuid   *)
(* comes after every uuid it refers to, and a node is reconstructed only   *)
(* when all the uuids its row refers to are in the resolved set.           *)
(***************************************************************************)
ReloadSequence == new_uuids \o order

NumRows == 3

RowIds == 1..NumRows

Tables == {"T1", "T2"}

table_to_class == [t \in Tables |-> IF t = "T1" THEN "C1" ELSE "C2"]

\* the schemas of a table: entries (attr, type_name)
Schemas ==
    {<<<<"lz", "lazy">>>>,
     <<<<"ref", "uuid">>, <<"lz", "lazy">>>>,
     <<<<"lz", "lazy">>, <<"n", "int">>>>}

SchemaAttrs(schema) == {schema[i][1] : i \in 1..Len(schema)}

\* the object of a uuid, fully materialized
ObjectOf(u, tables) == <<"obj", u, table_to_class[tables[u]]>>

\* GenericLazyLoader.__init__: uuid, class_, storage, nothing loaded
GenericLazyLoader(uuid, class_) == <<"proxy", uuid, class_>>

\* Serialization.make_lazy / ProxyObjectFactory.make_lazy
make_lazy(cls, uuid) == GenericLazyLoader(uuid, cls)

\* the deserializer default_deserializer_dict gives an attribute; None for a builtin type
attribute_deserializer(type_name) ==
    CASE type_name = "uuid" -> "from_json_obj"
      [] type_name = "lazy" -> "make_lazy"
      [] type_name \in {"json", "list_uuid"} -> "from_bare_json"
      [] OTHER -> "None"

\* one pass of the loop of default_deserialize over (attr, type_name)
DefaultDeserializeAttr(uuid, cls, type_name, value, cache) ==
    IF type_name = "lazy" THEN make_lazy(cls, uuid)
    ELSE IF type_name \in {"uuid", "list_uuid"}
    THEN IF attribute_deserializer(type_name) = "from_json_obj"
         THEN from_json_obj(<<"jnum", value>>, cache)
         ELSE from_bare_json(<<"jnum", value>>, cache)
    ELSE IF attribute_deserializer(type_name) = "None"
    THEN <<"raise", "TypeError">>
    ELSE <<"raise", "TypeError">>

\* the first exception raised in schema order, or the dict of the new attribute values
InSchemaOrder(schema, f) ==
    IF \E i \in 1..Len(schema) : IsRaise(f[schema[i][1]])
    THEN f[schema[CHOOSE i \in 1..Len(schema) :
                     /\ IsRaise(f[schema[i][1]])
                     /\ \A j \in 1..(i - 1) : ~IsRaise(f[schema[j][1]])][1]]
    ELSE <<"dict", f>>

AttrType(schema, attr) == schema[CHOOSE i \in 1..Len(schema) : schema[i][1] = attr][2]

default_deserialize(uuid, dct, table, schema, cache) ==
    LET cls == table_to_class[table]
    IN  InSchemaOrder(schema,
            [attr \in SchemaAttrs(schema) |->
                DefaultDeserializeAttr(uuid, cls, AttrType(schema, attr), dct[attr], cache)])

\* search_caches(uuid, cache_list): the entry of the first cache that holds the uuid
search_caches(uuid, cache) ==
    IF uuid \in DOMAIN cache THEN cache[uuid] ELSE <<"raise", "KeyError">>

\* SchemaDeserializer.init_attribute_handlers and make_dct
SchemaDeserializerHandles(type_name) == type_name \in {"lazy", "uuid", "list_uuid"}

SchemaDeserializer(uuid, table_dct, schema, cache) ==
    InSchemaOrder(schema,
        [attr \in SchemaAttrs(schema) |->
            IF SchemaDeserializerHandles(AttrType(schema, attr))
            THEN search_caches(table_dct[attr], cache)
            ELSE table_dct[attr]])

\* ProxyObjectFactory.make_all_lazies over the rows of the lazy uuids
ProxyObjectFactory_make_all_lazies(lazy_uuids, tables) ==
    [u \in lazy_uuids |-> make_lazy(table_to_class[tables[u]], u)]

\* the attribute values of a row of the schema: uuids for references, an int otherwise
RowsOf(schema) ==
    {[uuid |-> u,
      vals |-> [a \in SchemaAttrs(schema) |->
                  IF AttrType(schema, a) \in {"uuid", "lazy"} THEN v[a] ELSE <<"int", v[a]>>]] :
        u \in RowIds, v \in [SchemaAttrs(schema) -> RowIds]}

InitDeser ==
    /\ OnlyDeser
    /\ dcaller \in {"default_deserialize", "SchemaDeserializer"}
    /\ dtables \in [RowIds -> Tables]
    /\ dschema \in Schemas
    /\ drow \in RowsOf(dschema)
    \* the cache holds the objects the row refers to strictly: they were reconstructed before
    /\ dcache = [u \in {drow.vals[a] : a \in {b \in SchemaAttrs(dschema) : AttrType(dschema, b) = "uuid"}}
                   |-> ObjectOf(u, dtables)]
    /\ ddct = None
    /\ dresolved = None
    /\ dpc = "lazies"

LazyUuids(schema, row) ==
    {row.vals[a] : a \in {b \in SchemaAttrs(schema) : AttrType(schema, b) = "lazy"}}

\* the proxies of the lazy uuids that are not known yet enter the cache
DeserMakeLazies ==
    /\ dpc = "lazies"
    /\ dcache' = IF dcaller = "SchemaDeserializer"
                 THEN Update(dcache, ProxyObjectFactory_make_all_lazies(
                                         LazyUuids(dschema, drow) \ DOMAIN dcache, dtables))
                 ELSE dcache
    /\ dpc' = "row"
    /\ UNCHANGED <<dcaller, dtables, dschema, drow, ddct, dresolved>>
    /\ UNCHANGED exceptDeser

DeserDefault ==
    /\ dpc = "row" /\ dcaller = "default_deserialize"
    /\ ddct' = default_deserialize(drow.uuid, drow.vals, dtables[drow.uuid], dschema, dcache)
    /\ dpc' = "done"
    /\ UNCHANGED <<dcaller, dtables, dschema, drow, dcache, dresolved>>
    /\ UNCHANGED exceptDeser

DeserSchema ==
    /\ dpc = "row" /\ dcaller = "SchemaDeserializer"
    /\ ddct' = SchemaDeserializer(drow.uuid, drow.vals, dschema, dcache)
    /\ dpc' = "done"
    /\ UNCHANGED <<dcaller, dtables, dschema, drow, dcache, dresolved>>
    /\ UNCHANGED exceptDeser

\* storage.load(uuid): the object of that identity
storage_load(uuid, tables) == ObjectOf(uuid, tables)

\* GenericLazyLoader.load on first access
GenericLazyLoader_load(proxy, tables) == storage_load(proxy[2], tables)

\* the first attribute access on the value of the lazy attribute
DeserResolveLazy ==
    /\ dpc = "done" /\ ~IsRaise(ddct)
    /\ dresolved' = IF Tag(ddct[2]["lz"]) = "proxy"
                    THEN GenericLazyLoader_load(ddct[2]["lz"], dtables)
                    ELSE ddct[2]["lz"]
    /\ dpc' = "resolved"
    /\ UNCHANGED <<dcaller, dtables, dschema, drow, dcache, ddct>>
    /\ UNCHANGED exceptDeser

NextDeser == DeserMakeLazies \/ DeserDefault \/ DeserSchema \/ DeserResolveLazy

SpecDeser == InitDeser /\ [][NextDeser]_vars

(***************************************************************************)
(* C9  Lazy reference target: after a row is deserialized its lazy         *)
(* attribute holds a proxy with the identity stored in that attribute and  *)
(* the class of the referenced object, its ref attributes hold the         *)
(* resolved objects, and resolving the proxy yields the object of the      *)
(* stored identity, equal to the eagerly loaded one.                       *)
(***************************************************************************)
C9_LazyTarget ==
    /\ dpc \in {"done", "resolved"} =>
          /\ ~IsRaise(ddct)
          /\ ddct[2]["lz"][2] = drow.vals["lz"]
          /\ ddct[2]["lz"][3] = table_to_class[dtables[drow.vals["lz"]]]
          /\ "ref" \in SchemaAttrs(dschema) =>
                ddct[2]["ref"] = ObjectOf(drow.vals["ref"], dtables)
    /\ dpc = "resolved" => dresolved = ObjectOf(drow.vals["lz"], dtables)

(***************************************************************************)
(* Spec: one open container.  An object store, its identity map, its cache *)
(* (a weak index plus a ring of strong references) and the proxies that    *)
(* stand for lazily referenced rows.  An object has one eagerly loaded     *)
(* attribute (ref, an 'obj.' variable) and one lazily loaded attribute     *)
(* (lz, a 'lazyobj.' variable).  An absent reference is instance 0 in      *)
(* memory and -1 in a cell; a cell that was never written holds -2.        *)
(***************************************************************************)
NumObjs == 2      \* objects the caller creates before the session
MaxLoaded == 2    \* objects reconstructed from rows in one session
HotSize == 1      \* length of the cache's ring of strong references

MaxInst == NumObjs + MaxLoaded

Objs == 1 .. NumObjs

Layers == {"netcdfplus", "simstore"}

SaveApis == {"store", "storage", "object"}

Range(f) == {f[k] : k \in DOMAIN f}

\* the lazy attribute of an object: nothing, an object, a (store, idx) tuple,
\* a LoaderProxy [idx, weak reference to its subject] or a
\* GenericLazyLoader [uuid, _loaded_object]
NoLazy == <<"none">>

LoaderProxy(store, idx) == <<"LoaderProxy", idx, 0>>

make_lazy_class(uuid) == <<"GenericLazyLoader", uuid, 0>>

\* the objects an instance refers to strongly: a LoaderProxy holds its
\* subject by weakref.ref, a GenericLazyLoader holds _loaded_object itself
StrongRefs(h, x) ==
    LET lzv == h[x].lz
    IN  ({h[x].ref}
          \cup (IF lzv[1] = "obj" THEN {lzv[2]} ELSE {})
          \cup (IF lzv[1] = "GenericLazyLoader" THEN {lzv[3]} ELSE {})) \ {0}

RECURSIVE Reachable(_, _)
Reachable(h, S) ==
    LET T == S \cup UNION {StrongRefs(h, x) : x \in S}
    IN  IF T = S THEN S ELSE Reachable(h, T)

\* reference counting: an object nothing refers to strongly is collected at
\* once, and its weak references (cache entry, identity map entry, proxy
\* subjects) die with it
Collected(h, ix, wk, hd, ring) ==
    LET live == Reachable(h, hd \cup Range(ring) \cup {stack[k].obj : k \in DOMAIN stack})
    IN  /\ heap' = [x \in live |-> h[x]]
        /\ index' = [x \in DOMAIN ix \cap live |-> ix[x]]
        /\ weak' = [i \in {k \in DOMAIN wk : wk[k] \in live} |-> wk[i]]

\* an access moves the instance to the recent end of the ring, and the ring
\* drops its oldest reference when it is full
Touch(ring, o) ==
    LET h == SelectSeq(ring, LAMBDA x : x # o) \o <<o>>
    IN  IF Len(h) > HotSize THEN Tail(h) ELSE h

RECURSIVE TouchAll(_, _)
TouchAll(ring, os) ==
    IF os = <<>> THEN ring ELSE TouchAll(Touch(ring, Head(os)), Tail(os))

RowIdxs == 0 .. (Len(cells) - 1)

RowComplete(i) ==
    /\ i \in RowIdxs
    /\ cells[i + 1].ref # -2
    /\ cells[i + 1].lz # -2

\* StorableObject.idx(store): store.index.get(self, None)
idx_unknown_as_zero(o) == IF o \in DOMAIN index THEN index[o] ELSE 0

idx(o) == IF o \in DOMAIN index THEN index[o] ELSE -1

\* KeyDelegate: delegate[x] addresses the row store.index[x] of the variable
KeyDelegate_key(key) == index[key]

\* the setter of an 'obj.' variable: -1 if v is None else store.save(v).
\* store.save returns at once the identity of an object that has one, and
\* otherwise runs a save of v (call) before it returns
obj_setter_no_save(v) ==
    IF v = 0 THEN [call |-> FALSE, value |-> -1]
    ELSE IF v \in DOMAIN index THEN [call |-> FALSE, value |-> index[v]]
    ELSE [call |-> FALSE, value |-> Len(cells)]

obj_setter(v) ==
    IF v = 0 THEN [call |-> FALSE, value |-> -1]
    ELSE IF v \in DOMAIN index THEN [call |-> FALSE, value |-> index[v]]
    ELSE [call |-> TRUE, value |-> v]

\* the setter of a 'lazyobj.' variable, the same expression
lazyobj_setter(v) ==
    IF v[1] = "none" THEN [call |-> FALSE, value |-> -1]
    ELSE IF v[1] = "obj"
         THEN IF v[2] \in DOMAIN index
              THEN [call |-> FALSE, value |-> index[v[2]]]
              ELSE [call |-> TRUE, value |-> v[2]]
    ELSE [call |-> FALSE, value |-> v[2]]

\* what the caller of a save gets back: store.save returns the identity,
\* NetCDFPlus.save and StorableObject.save end without a return value
SaveReturn(api, identity) == IF api = "store" THEN identity ELSE -1

\* the getter of a 'lazyobj.' variable (netcdfplus) and the resolution of a
\* lazy attribute by SchemaDeserializer (simstore): the cached object if
\* there is one, else a proxy
lazyobj_getter(w) ==
    IF w < 0 THEN NoLazy
    ELSE IF layer = "netcdfplus" THEN LoaderProxy("store", w)
    ELSE IF w \in DOMAIN weak THEN <<"obj", weak[w]>>
    ELSE make_lazy_class(w)

\* the rows store.load(i) has to reconstruct, outermost first: row i unless
\* the cache holds a live object for it, then the row its 'obj.' cell names
RECURSIVE eager_chain(_)
eager_chain(i) ==
    IF i < 0 \/ i \in DOMAIN weak THEN <<>>
    ELSE <<i>> \o eager_chain(cells[i + 1].ref)

\* reconstruct the rows c (innermost row first), register each new object
\* in the cache and in the identity map
Reconstruct(c) ==
    LET n == Len(c)
        InstOf(j) == nextInst + (n - j)
        last == cells[c[n] + 1].ref
        NewObj(j) ==
            [ref |-> IF j < n THEN InstOf(j + 1)
                     ELSE IF last < 0 THEN 0 ELSE weak[last],
             lz  |-> lazyobj_getter(cells[c[j] + 1].lz),
             row |-> c[j]]
        made == [j \in 1 .. n |-> InstOf(n + 1 - j)]  \* in order of creation
        added == [o \in {InstOf(j) : j \in 1 .. n} |->
                     NewObj(CHOOSE j \in 1 .. n : InstOf(j) = o)]
        rowsOf == [o \in {InstOf(j) : j \in 1 .. n} |->
                     c[CHOOSE j \in 1 .. n : InstOf(j) = o]]
        byRow == [r \in Range(c) |-> InstOf(CHOOSE j \in 1 .. n : c[j] = r)]
    IN  [inst     |-> InstOf(1),
         heap     |-> added @@ heap,
         index    |-> rowsOf @@ index,
         weak     |-> byRow @@ weak,
         hot      |-> TouchAll(hot, made),
         nextInst |-> nextInst + n,
         loaded   |-> TRUE]

\* store._load(i): reconstruct row i without consulting the cache
ObjectStore__load(i) == Reconstruct(<<i>> \o eager_chain(cells[i + 1].ref))

\* store.load(i): the live cached object, else a reconstruction
ObjectStore_load(i) ==
    IF i \in DOMAIN weak
    THEN [inst |-> weak[i], heap |-> heap, index |-> index, weak |-> weak,
          hot |-> Touch(hot, weak[i]), nextInst |-> nextInst, loaded |-> TRUE]
    ELSE Reconstruct(eager_chain(i))

NoCall(o) ==
    [inst |-> o, heap |-> heap, index |-> index, weak |-> weak,
     hot |-> hot, nextInst |-> nextInst, loaded |-> FALSE]

\* the getter of an 'obj.' variable: None if int(v) < 0 else store.load(int(v))
obj_getter_reconstructs(w) == IF w < 0 THEN NoCall(0) ELSE ObjectStore__load(w)

obj_getter(w) == IF w < 0 THEN NoCall(0) ELSE ObjectStore_load(w)

\* LoaderProxy._load_: self._store[self._idx]
LoaderProxy_load_reconstructs(p) == ObjectStore__load(p[2])

LoaderProxy_load(p) == ObjectStore_load(p[2])

\* LoaderProxy.__subject__: the subject if its weak reference is set and
\* alive, else _load_ and a new weak reference
LoaderProxy_memo_never(p) == FALSE

LoaderProxy_memo(p) == p[3] # 0 /\ p[3] \in DOMAIN heap

LoaderProxy_subject(p) ==
    IF LoaderProxy_memo(p) THEN NoCall(p[3]) ELSE LoaderProxy_load(p)

\* GenericLazyLoader.load: storage.load once, then _loaded_object
GenericLazyLoader_resolve(p) ==
    IF p[3] # 0 THEN NoCall(p[3]) ELSE ObjectStore_load(p[2])

\* DelayedLoader.__get__ and, for simstore, the access through the proxy
DelayedLoader_get(v) ==
    IF v[1] = "tuple" THEN ObjectStore_load(v[2])
    ELSE IF v[1] = "LoaderProxy" THEN LoaderProxy_subject(v)
    ELSE IF v[1] = "GenericLazyLoader" THEN GenericLazyLoader_resolve(v)
    ELSE NoCall(v[2])

\* a proxy that has resolved its target
Resolved(v) == v[1] \in {"LoaderProxy", "GenericLazyLoader"} /\ v[3] # 0

\* the lazy attribute after the access: a proxy remembers what it resolved to
AfterGet(v, inst) ==
    IF v[1] \in {"LoaderProxy", "GenericLazyLoader"}
    THEN <<v[1], v[2], inst>>
    ELSE v

LazyValues(o) == {NoLazy} \cup {<<"obj", w>> : w \in 1 .. (o - 1)}

\* the reference graph of the caller's objects is acyclic: an object refers
\* to objects created before it
InitialHeaps ==
    {h \in [Objs -> [ref : 0 .. NumObjs,
                     lz : LazyValues(NumObjs + 1),
                     row : {-1}]] :
        \A o \in Objs : h[o].ref < o /\ h[o].lz \in LazyValues(o)}

Init ==
    /\ OnlyStore
    /\ layer \in Layers
    /\ heap \in InitialHeaps
    /\ held = Objs
    /\ index = <<>>
    /\ cells = <<>>
    /\ weak = <<>>
    /\ hot = <<>>
    /\ stack = <<>>
    /\ nextInst = NumObjs + 1

\* store.save(o) for an object without identity: assign the next identity
\* and start to serialize the attributes
BeginSave(o) ==
    /\ index' = (o :> Len(cells)) @@ index
    /\ cells' = Append(cells, [ref |-> -2, lz |-> -2])
    /\ heap' = [heap EXCEPT ![o].row = Len(cells)]
    /\ stack' = Append(stack, [obj |-> o, idx |-> Len(cells)])

\* NetCDFPlus.save(obj), obj.save(store) or store.save(obj) by the caller
SaveCall(o, api) ==
    /\ stack = <<>>
    /\ o \in held
    /\ api # "store" => layer = "netcdfplus"
    /\ IF o \in DOMAIN index
       THEN UNCHANGED <<heap, index, cells, stack>>
       ELSE BeginSave(o)
    /\ UNCHANGED <<layer, held, weak, hot, nextInst>>
    /\ UNCHANGED exceptStore

\* ValueDelegate.__setitem__ for the next attribute of the object being
\* saved: self.variable[key] = self.setter(value); the setter runs first,
\* and where it has to save the referenced object that save runs to its end
\* before the cell is assigned
SaveWriteCell ==
    /\ stack # <<>>
    /\ LET top == stack[Len(stack)]
           row == top.idx + 1
           attr == IF cells[row].ref = -2 THEN "ref" ELSE "lz"
           r == IF attr = "ref" THEN obj_setter(heap[top.obj].ref)
                ELSE lazyobj_setter(heap[top.obj].lz)
       IN  /\ cells[row].ref = -2 \/ cells[row].lz = -2
           /\ IF r.call
              THEN BeginSave(r.value)
              ELSE /\ cells' = [cells EXCEPT ![row][attr] = r.value]
                   /\ UNCHANGED <<heap, index, stack>>
    /\ UNCHANGED <<layer, held, weak, hot, nextInst>>
    /\ UNCHANGED exceptStore

\* the end of store.save: the row is written, the object is registered in
\* the cache under its identity, the identity is returned
SaveFinish ==
    /\ stack # <<>>
    /\ LET top == stack[Len(stack)]
       IN  /\ RowComplete(top.idx)
           /\ stack' = SubSeq(stack, 1, Len(stack) - 1)
           /\ hot' = Touch(hot, top.obj)
           /\ Collected(heap, index, (top.idx :> top.obj) @@ weak, held,
                        Touch(hot, top.obj))
    /\ UNCHANGED <<layer, held, cells, nextInst>>
    /\ UNCHANGED exceptStore

\* the effect of a load on the container, the caller keeps the result
Returned(r, h) ==
    /\ r.nextInst <= MaxInst + 1
    /\ Collected(h, r.index, r.weak, held \cup ({r.inst} \ {0}), r.hot)
    /\ hot' = r.hot
    /\ nextInst' = r.nextInst
    /\ held' = held \cup ({r.inst} \ {0})

\* store.load(i) by the caller
Load(i) ==
    /\ stack = <<>>
    /\ i \in RowIdxs
    /\ LET r == ObjectStore_load(i)
       IN  Returned(r, r.heap)
    /\ UNCHANGED <<layer, cells, stack>>
    /\ UNCHANGED exceptStore

\* ValueDelegate.__getitem__ on the 'obj.' variable: getter(variable[i])
ReadVariable(i) ==
    /\ stack = <<>>
    /\ layer = "netcdfplus"
    /\ i \in RowIdxs
    /\ LET r == obj_getter(cells[i + 1].ref)
       IN  Returned(r, r.heap)
    /\ UNCHANGED <<layer, cells, stack>>
    /\ UNCHANGED exceptStore

\* reading the lazy attribute of o: DelayedLoader.__get__, or an access
\* through the GenericLazyLoader
LazyGet(o) ==
    /\ stack = <<>>
    /\ o \in held
    /\ heap[o].lz # NoLazy
    /\ LET v == heap[o].lz
           r == DelayedLoader_get(v)
       IN  Returned(r, [r.heap EXCEPT ![o].lz = AfterGet(v, r.inst)])
    /\ UNCHANGED <<layer, cells, stack>>
    /\ UNCHANGED exceptStore

\* DelayedLoader.__set__ with a (store, idx) tuple in place of the proxy
SetLazyTuple(o) ==
    /\ stack = <<>>
    /\ o \in held
    /\ heap[o].lz[1] = "LoaderProxy"
    /\ heap' = [heap EXCEPT ![o].lz = <<"tuple", heap[o].lz[2]>>]
    /\ UNCHANGED <<layer, held, index, cells, weak, hot, stack, nextInst>>
    /\ UNCHANGED exceptStore

\* the caller gives up its reference to o (del, or the name goes out of scope)
Drop(o) ==
    /\ stack = <<>>
    /\ o \in held
    /\ held' = held \ {o}
    /\ Collected(heap, index, weak, held \ {o}, hot)
    /\ UNCHANGED <<layer, cells, hot, stack, nextInst>>
    /\ UNCHANGED exceptStore

Next ==
    \/ \E o \in held, api \in SaveApis : SaveCall(o, api)
    \/ SaveWriteCell
    \/ SaveFinish
    \/ \E i \in RowIdxs : Load(i)
    \/ \E i \in RowIdxs : ReadVariable(i)
    \/ \E o \in held : LazyGet(o)
    \/ \E o \in held : SetLazyTuple(o)
    \/ \E o \in held : Drop(o)

Spec == Init /\ [][Next]_vars

(***************************************************************************)
(* C1  Idempotent save: a save of an object that already has an identity,  *)
(* whichever way it is called (store.save, NetCDFPlus.save, obj.save),     *)
(* returns that identity (and SaveCall leaves the rows as they are).       *)
(***************************************************************************)
C1_IdempotentSave ==
    \A o \in held \cap DOMAIN index, api \in SaveApis :
        (stack = <<>> /\ (api # "store" => layer = "netcdfplus")) =>
            SaveReturn(api, index[o]) = index[o]

(***************************************************************************)
(* C3  Identity uniqueness: no two distinct live objects report the same   *)
(* identity from idx, every identity reported designates one row of the    *)
(* store, and a KeyDelegate addresses distinct rows for distinct objects.  *)
(***************************************************************************)
C3_IdentityUnique ==
    /\ \A a, b \in DOMAIN heap :
          (a # b /\ idx(a) # -1 /\ idx(b) # -1) => idx(a) # idx(b)
    /\ \A a \in DOMAIN heap : idx(a) # -1 => idx(a) \in RowIdxs
    /\ \A a, b \in DOMAIN index :
          /\ KeyDelegate_key(a) = idx(a)
          /\ a # b => KeyDelegate_key(a) # KeyDelegate_key(b)

C3_Witness ==
    /\ Cardinality(DOMAIN index) >= 2
    /\ \E a \in DOMAIN index : a > NumObjs

\* the identity a lazy attribute value stands for
TargetOf(v) == IF v[1] = "obj" THEN heap[v[2]].row ELSE v[2]

\* every way to load identity i returns the object o
LoadsGive(i, o) ==
    /\ ObjectStore_load(i).inst = o
    /\ \A r \in RowIdxs : cells[r + 1].ref = i => obj_getter(i).inst = o
    /\ \A x \in DOMAIN heap :
          (heap[x].lz # NoLazy /\ TargetOf(heap[x].lz) = i) =>
              DelayedLoader_get(heap[x].lz).inst = o

C6_DependencyFirst ==
    /\ \A i \in RowIdxs :
          /\ cells[i + 1].ref >= 0 => RowComplete(cells[i + 1].ref)
          /\ cells[i + 1].lz >= 0 => RowComplete(cells[i + 1].lz)
    /\ stack = <<>> =>
          \A o \in Objs \cap DOMAIN index :
              cells[index[o] + 1].ref = idx(heap[o].ref)

C6_Witness ==
    /\ stack # <<>>
    /\ \E i \in RowIdxs : cells[i + 1].ref > i /\ cells[i + 1].lz = -2

(***************************************************************************)
(* C10  Proxy memoization, as claimed: once a proxy has resolved its       *)
(* target, every later access through it returns the same object and does  *)
(* not call the store's load, whatever happened to the other references.   *)
(***************************************************************************)
C10_ProxyMemoization ==
    stack = <<>> =>
        \A o \in held :
            Resolved(heap[o].lz) =>
                /\ DelayedLoader_get(heap[o].lz).inst = heap[o].lz[3]
                /\ ~DelayedLoader_get(heap[o].lz).loaded

(***************************************************************************)
(* C10 (amended)  Proxy memoization: once a proxy has resolved its target, *)
(* every later access through it returns the same object and does not call *)
(* the store's load, as long as the object is still alive; a LoaderProxy   *)
(* holds it by a weak reference, a GenericLazyLoader keeps it alive.       *)
(***************************************************************************)
C10_MemoWhileAlive ==
    stack = <<>> =>
        \A o \in held :
            (/\ Resolved(heap[o].lz)
             /\ heap[o].lz[1] = "LoaderProxy" => heap[o].lz[3] \in DOMAIN heap)
            => /\ DelayedLoader_get(heap[o].lz).inst = heap[o].lz[3]
               /\ ~DelayedLoader_get(heap[o].lz).loaded

C10_Witness ==
    /\ stack = <<>>
    /\ \E o \in held :
          /\ heap[o].lz[1] = "LoaderProxy"
          /\ heap[o].lz[3] \in DOMAIN heap
          /\ heap[o].lz[3] \notin held

(***************************************************************************)
(* SpecProxy: the proxies of netcdfplus/proxy.py and the lazy loaders of   *)
(* new/serialization.py over two stores.  The first store has the rows    *)
(* 0 .. ProxyRows - 1 and the second store has the row 0; the identity     *)
(* after the last row of a store is one it has no row for.  There are two LoaderProxy objects for every identity of every     *)
(* store and a GenericLazyLoader for every identity of the first one.  An  *)
(* absent object (None) is instance 0.                                     *)
(***************************************************************************)
ProxyRows == 1       \* rows of the first store

ProxyStores == {"s1", "s2"}

ProxyRowsOf(st) == IF st = "s1" THEN ProxyRows ELSE 1

LoaderProxies ==
    {p \in [kind : {"LoaderProxy"}, store : ProxyStores, idx : 0 .. ProxyRows,
            copy : {"a", "b"}] : p.idx <= ProxyRowsOf(p.store)}

LazyLoaders ==
    [kind : {"GenericLazyLoader"}, store : {"s1"}, idx : 0 .. ProxyRows,
     copy : {"a"}]

NoAccess == [op |-> "none"]

KnownRow(st, i) == i \in 0 .. (ProxyRowsOf(st) - 1)

\* the instances that are alive: those the caller holds and those a
\* GenericLazyLoader keeps in _loaded_object
LiveOf(hd, prox) == (hd \cup {prox[g] : g \in LazyLoaders}) \ {0}

\* the instance a row is reconstructed as.  A store keeps at most one live
\* object of a row, so the objects alive at one time are told apart by
\* their rows and a number is free again once its object is collected
NewInstance(st, i) == (IF st = "s1" THEN 0 ELSE ProxyRows) + i + 1

\* store[idx] and store.load(idx): the live cached object, else the row is
\* read and a new object is made and cached.  For an identity without a
\* row load fails with NotFound; LoaderProxy and GenericLazyLoader are
\* written for a store that may also answer None, so both answers occur
ObjectStore_getitem(st, i) ==
    IF ~KnownRow(st, i)
    THEN [raised |-> IF pmiss = "raise" THEN "NotFound" ELSE "none",
          value |-> 0, cache |-> pcache, calls |-> 1]
    ELSE IF <<st, i>> \in DOMAIN pcache
    THEN [raised |-> "none", value |-> pcache[<<st, i>>], cache |-> pcache,
          calls |-> 1]
    ELSE [raised |-> "none", value |-> NewInstance(st, i),
          cache |-> (<<st, i>> :> NewInstance(st, i)) @@ pcache, calls |-> 1]

\* LoaderProxy._load_: return self._store[self._idx]
LoaderProxy__load_(p) == ObjectStore_getitem(p.store, p.idx)

Outcome(r, memo) ==
    [raised |-> r.raised, value |-> r.value, cache |-> r.cache,
     calls |-> r.calls, memo |-> memo]

\* LoaderProxy.__subject__: the subject while its weak reference is alive,
\* else _load_; None if that gives None, else the new subject is remembered
LoaderProxy___subject__(p) ==
    IF pprox[p] # 0 /\ pprox[p] \in LiveOf(pheld, pprox)
    THEN [raised |-> "none", value |-> pprox[p], cache |-> pcache,
          calls |-> 0, memo |-> pprox[p]]
    ELSE LET ref == LoaderProxy__load_(p)
         IN  IF ref.raised # "none" THEN Outcome(ref, pprox[p])
             ELSE IF ref.value = 0 THEN Outcome(ref, pprox[p])
             ELSE Outcome(ref, ref.value)

\* LoaderProxy.__getattr__: getattr(self.__subject__, item); an attribute
\* of None does not exist
LoaderProxy___getattr__(p) ==
    LET r == LoaderProxy___subject__(p)
    IN  IF r.raised = "none" /\ r.value = 0
        THEN [r EXCEPT !.raised = "AttributeError"]
        ELSE r

\* the values a proxy is compared with: <<"proxy", q>>, <<"obj", o>>, None
ProxyIs(o, other) ==
    IF other[1] = "obj" THEN o = other[2]
    ELSE IF other[1] = "none" THEN o = 0
    ELSE FALSE

\* LoaderProxy.__eq__
LoaderProxy___eq___idx_only(p, other) ==
    IF other = <<"proxy", p>>
    THEN [raised |-> "none", eq |-> TRUE, cache |-> pcache,
          memo |-> pprox[p]]
    ELSE IF other[1] = "proxy" /\ other[2].kind = "LoaderProxy"
    THEN [raised |-> "none",
          eq |-> (p.idx = other[2].idx),
          cache |-> pcache, memo |-> pprox[p]]
    ELSE LET r == LoaderProxy___subject__(p)
         IN  [raised |-> r.raised,
              eq |-> (r.raised = "none" /\ ProxyIs(r.value, other)),
              cache |-> r.cache, memo |-> r.memo]

LoaderProxy___eq__(p, other) ==
    IF other = <<"proxy", p>>
    THEN [raised |-> "none", eq |-> TRUE, cache |-> pcache,
          memo |-> pprox[p]]
    ELSE IF other[1] = "proxy" /\ other[2].kind = "LoaderProxy"
    THEN [raised |-> "none",
          eq |-> (p.idx = other[2].idx /\ p.store = other[2].store),
          cache |-> pcache, memo |-> pprox[p]]
    ELSE LET r == LoaderProxy___subject__(p)
         IN  [raised |-> r.raised,
              eq |-> (r.raised = "none" /\ ProxyIs(r.value, other)),
              cache |-> r.cache, memo |-> r.memo]

\* GenericLazyLoader.load: storage.load once, RuntimeError("UUID not found
\* in storage: ...") if nothing came back, else _loaded_object
GenericLazyLoader__load(g) ==
    IF pprox[g] # 0
    THEN [raised |-> "none", value |-> pprox[g], cache |-> pcache,
          calls |-> 0, memo |-> pprox[g]]
    ELSE LET r == ObjectStore_getitem(g.store, g.idx)
         IN  IF r.raised # "none" THEN Outcome(r, 0)
             ELSE IF r.value = 0
                  THEN Outcome([r EXCEPT !.raised = "RuntimeError"], 0)
             ELSE Outcome(r, r.value)

InitProxy ==
    /\ OnlyProxy
    /\ pmiss \in {"raise", "None"}
    /\ pcache = <<>>
    /\ pprox = [p \in LoaderProxies \cup LazyLoaders |-> 0]
    /\ pheld = {}
    /\ pout = NoAccess

\* what a call leaves behind: the proxy p remembers memo, the caller keeps
\* the instances in keep, and an instance nothing refers to strongly is
\* collected (its cache entry and the weak references of the proxies die)
ProxySettle(p, r, keep, out) ==
    LET prox1 == [pprox EXCEPT ![p] = r.memo]
        held1 == pheld \cup (keep \ {0})
        live == LiveOf(held1, prox1)
    IN  /\ pheld' = held1
        /\ pcache' = [k \in {x \in DOMAIN r.cache : r.cache[x] \in live}
                         |-> r.cache[k]]
        /\ pprox' = [q \in DOMAIN prox1 |->
                        IF prox1[q] \in live THEN prox1[q] ELSE 0]
        /\ pout' = out
        /\ UNCHANGED pmiss

\* what the caller sees of an access through the proxy p
Access(op, p, r) ==
    [op |-> op, raised |-> r.raised, none |-> (r.value = 0)]

\* DelayedLoader.__get__ on an attribute that holds the proxy p: the caller
\* gets p.__subject__ and keeps it
ProxySubject(p) ==
    /\ LET r == LoaderProxy___subject__(p)
       IN  ProxySettle(p, r, IF r.raised = "none" THEN {r.value} ELSE {},
                       Access("subject", p, r))
    /\ UNCHANGED exceptProxy

\* the caller reads an attribute through the proxy p
ProxyGetAttr(p) ==
    /\ LET r == LoaderProxy___getattr__(p)
       IN  ProxySettle(p, r, {},
                       Access("getattr", p, r))
    /\ UNCHANGED exceptProxy

\* the caller evaluates p == other
ProxyCompare(p, other) ==
    /\ LET r == LoaderProxy___eq__(p, other)
       IN  ProxySettle(p, r, {},
                       [op |-> "eq", arg |-> other[1],
                        resolved |-> (pprox[p] # 0),
                        raised |-> r.raised, eq |-> r.eq])
    /\ UNCHANGED exceptProxy

\* the caller reads an attribute through the lazy loader g
LoaderGetAttr(g) ==
    /\ LET r == GenericLazyLoader__load(g)
       IN  ProxySettle(g, r, {},
                       Access("load", g, r))
    /\ UNCHANGED exceptProxy

\* the caller gives up its reference to the instance o
ProxyDrop(o) ==
    /\ LET live == LiveOf(pheld \ {o}, pprox)
       IN  /\ pheld' = pheld \ {o}
           /\ pcache' = [k \in {x \in DOMAIN pcache : pcache[x] \in live}
                            |-> pcache[k]]
           /\ pprox' = [q \in DOMAIN pprox |->
                           IF pprox[q] \in live THEN pprox[q] ELSE 0]
    /\ pout' = [op |-> "drop"]
    /\ UNCHANGED pmiss
    /\ UNCHANGED exceptProxy

\* the values the caller compares a proxy with: the first proxy of every
\* identity (the proxy itself, another proxy of its identity, a proxy of
\* another identity or store), the objects it holds, and None
Comparands ==
    {<<"proxy", q>> : q \in {x \in LoaderProxies : x.copy = "a"}}
        \cup {<<"obj", o>> : o \in pheld} \cup {None}

NextProxy ==
    \/ \E p \in LoaderProxies : ProxySubject(p)
    \/ \E p \in LoaderProxies : ProxyGetAttr(p)
    \/ \E p \in LoaderProxies, other \in Comparands : ProxyCompare(p, other)
    \/ \E g \in LazyLoaders : LoaderGetAttr(g)
    \/ \E o \in pheld : ProxyDrop(o)

SpecProxy == InitProxy /\ [][NextProxy]_vars

\* the live object of the row the proxy p stands for: what p resolves to
ProxyTarget(p) ==
    IF <<p.store, p.idx>> \in DOMAIN pcache THEN pcache[<<p.store, p.idx>>]
    ELSE 0

\* C11 (proxy equality): a LoaderProxy p equals a LoaderProxy of the same
\* identity index in the same store and no other LoaderProxy, and, if its
\* identity has a row, it equals a live object x exactly if x is the object
\* it resolves to.  The expected value does not mention whether p had been
\* resolved, and the states checked hold p both resolved and unresolved.
C11_ProxyEquality ==
    \A p \in LoaderProxies :
        /\ \A q \in LoaderProxies :
              LET r == LoaderProxy___eq__(p, <<"proxy", q>>)
              IN  /\ r.raised = "none"
                  /\ r.eq = (q.idx = p.idx /\ q.store = p.store)
        /\ KnownRow(p.store, p.idx) =>
              \A o \in LiveOf(pheld, pprox) :
                 LET r == LoaderProxy___eq__(p, <<"obj", o>>)
                 IN  /\ r.raised = "none"
                     /\ r.eq = (o = ProxyTarget(p))

\* a resolved proxy was compared with the object it stands for while another
\* object was alive too
C11_Witness ==
    /\ pout.op = "eq"
    /\ pout.arg = "obj"
    /\ pout.resolved
    /\ pout.eq
    /\ Cardinality(pheld) >= 2

NotFoundErrors == {"NotFound", "RuntimeError"}

\* C14 (unknown identity): resolving a proxy whose identity has no row
\* fails with the not-found error after one lookup: LoaderProxy.__subject__
\* and __getattr__ and GenericLazyLoader.load raise it, and no access of the
\* caller has returned None.
C14_UnknownIdentity ==
    /\ \A p \in LoaderProxies :
          ~KnownRow(p.store, p.idx) =>
              /\ LoaderProxy___subject__(p).raised \in NotFoundErrors
              /\ LoaderProxy___getattr__(p).raised \in NotFoundErrors
              /\ LoaderProxy___subject__(p).calls = 1
    /\ \A g \in LazyLoaders :
          ~KnownRow(g.store, g.idx) =>
              /\ GenericLazyLoader__load(g).raised \in NotFoundErrors
              /\ GenericLazyLoader__load(g).calls = 1
    /\ pout.op \in {"subject", "getattr", "load"} =>
          ~(pout.raised = "none" /\ pout.none)

(***************************************************************************)
(* SpecSave: NetCDFPlus.save.  The objects 1 .. NumSaveObjs are of a class *)
(* with a registered store; their 'obj.' attribute holds None (0), an      *)
(* object created before them, or an object of a class no store is         *)
(* registered for (-1).  A value handed to save is <<"obj", o>>,           *)
(* <<"other">> (an object of a class without store), <<"list", parts>> or  *)
(* <<"tuple", parts>>.                                                     *)
(***************************************************************************)
NumSaveObjs == 2     \* storable objects
MaxParts == 2        \* length of a list or tuple handed to save

SaveObjs == 1 .. NumSaveObjs

SaveParts == {<<"obj", o>> : o \in SaveObjs} \cup {<<"other">>}

SaveArgs ==
    SaveParts \cup {<<kind, parts>> : kind \in {"list", "tuple"},
                                     parts \in SeqsUpTo(SaveParts, MaxParts)}

NoCallYet == [op |-> "none", raised |-> "none"]

\* store.save(o): the identity of an object that has one; else the
\* referenced object is saved first (the setter of the 'obj.' attribute),
\* then the row is written and the identity assigned.  A save that fails
\* leaves no row and no identity behind.
RECURSIVE ObjectStore_save(_, _, _)
ObjectStore_save(o, rows, ix) ==
    IF o \in DOMAIN ix
    THEN [raised |-> "none", rows |-> rows, index |-> ix]
    ELSE IF nref[o] = -1
    THEN [raised |-> "RuntimeWarning", rows |-> rows, index |-> ix]
    ELSE LET s == IF nref[o] = 0
                  THEN [raised |-> "none", rows |-> rows, index |-> ix]
                  ELSE ObjectStore_save(nref[o], rows, ix)
         IN  IF s.raised # "none"
             THEN [raised |-> s.raised, rows |-> rows, index |-> ix]
             ELSE [raised |-> "none", rows |-> Append(s.rows, o),
                   index |-> (o :> Len(s.rows)) @@ s.index]

\* NetCDFPlus.save(obj): the parts of a list or tuple one by one, an object
\* of a class with a store through its store, RuntimeWarning for the rest
RECURSIVE NetCDFPlus_save(_, _, _)
NetCDFPlus_save(obj, rows, ix) ==
    IF obj[1] \in {"list", "tuple"}
    THEN IF obj[2] = <<>>
         THEN [raised |-> "none", rows |-> rows, index |-> ix]
         ELSE LET s == NetCDFPlus_save(Head(obj[2]), rows, ix)
              IN  IF s.raised # "none" THEN s
                  ELSE NetCDFPlus_save(<<obj[1], Tail(obj[2])>>, s.rows, s.index)
    ELSE IF obj[1] = "obj" THEN ObjectStore_save(obj[2], rows, ix)
    ELSE [raised |-> "RuntimeWarning", rows |-> rows, index |-> ix]

InitSave ==
    /\ OnlySave
    /\ nref \in {f \in [SaveObjs -> -1 .. NumSaveObjs] :
                    \A o \in SaveObjs : f[o] < o}
    /\ nrows = <<>>
    /\ nindex = <<>>
    /\ nout = NoCallYet

\* the caller calls storage.save(arg)
NetSave(arg) ==
    /\ LET r == NetCDFPlus_save(arg, nrows, nindex)
       IN  /\ nrows' = r.rows
           /\ nindex' = r.index
           /\ nout' = [op |-> "storage.save", arg |-> arg, raised |-> r.raised]
    /\ UNCHANGED nref
    /\ UNCHANGED exceptSave

\* the caller calls store.save(o)
StoreSave(o) ==
    /\ LET r == ObjectStore_save(o, nrows, nindex)
       IN  /\ nrows' = r.rows
           /\ nindex' = r.index
           /\ nout' = [op |-> "store.save", arg |-> <<"obj", o>>,
                       raised |-> r.raised]
    /\ UNCHANGED nref
    /\ UNCHANGED exceptSave

NextSave ==
    \/ \E arg \in SaveArgs : NetSave(arg)
    \/ \E o \in SaveObjs : StoreSave(o)

SpecSave == InitSave /\ [][NextSave]_vars

\* C12 (failure atomicity): a save that fails leaves the rows and the
\* identities of the container as they were before the call.
C12_FailureAtomicity ==
    [][nout'.raised # "none" => (nrows' = nrows /\ nindex' = nindex)]_vars

(***************************************************************************)
(* SpecVar: one netCDF variable of logical type 'index' (np.int32 cells    *)
(* along an unlimited dimension), its ValueDelegate and a KeyDelegate on   *)
(* top of it.  A cell is <<"int32", n>> or Masked (never written: netCDF4  *)
(* reads it as the masked constant).  Python values are None, <<"int", n>> *)
(* and <<"list", items>>; a vectorized read of the variable is             *)
(* <<"array", cells>>.                                                     *)
(***************************************************************************)
MaxVarRows == 2      \* rows the variable grows to
MaxKeys == 3         \* length of the key lists a vectorized read is checked for

Masked == <<"masked">>

VarObjs == {"a"}

VarRows == 0 .. (MaxVarRows - 1)

\* the values of an 'index' attribute: no reference, or a row number
IndexValues == {None, <<"int", 0>>, <<"int", 1>>}

ScalarKeys == {<<"int", i>> : i \in VarRows} \cup {<<"obj", o>> : o \in VarObjs}

\* the key lists of the vectorized calls of the caller: one key, or two
\* keys in any order, equal or not
ListKeys ==
    {<<"list", <<a>>>> : a \in ScalarKeys}
        \cup {<<"list", <<a, b>>>> : a, b \in ScalarKeys}

Raise(e) == <<"raise", e>>

\* 'index' setter: [-1 if w is None else w for w in v] if hasattr(v,
\* '__iter__') else -1 if v is None else v
index_setter_keeps_none(v) ==
    IF v[1] = "list"
    THEN <<"list", [k \in DOMAIN v[2] |->
                       IF v[2][k] = None THEN <<"int", 0>> ELSE v[2][k]]>>
    ELSE IF v = None THEN <<"int", 0>> ELSE v

index_setter(v) ==
    IF v[1] = "list"
    THEN <<"list", [k \in DOMAIN v[2] |->
                       IF v[2][k] = None THEN <<"int", -1>> ELSE v[2][k]]>>
    ELSE IF v = None THEN <<"int", -1>> ELSE v

\* the cell netCDF4 stores for a Python int
ToCell(x) == <<"int32", x[2]>>

\* variable[i] = x: the unlimited dimension grows to row i and the rows in
\* between stay unwritten
variable_setitem_one(cs, i, x) ==
    IF i < Len(cs) THEN [cs EXCEPT ![i + 1] = ToCell(x)]
    ELSE cs \o [k \in 1 .. (i - Len(cs)) |-> Masked] \o <<ToCell(x)>>

\* variable[idxs] = values, idxs without repetition
RECURSIVE variable_setitem_many(_, _, _)
variable_setitem_many(cs, idxs, values) ==
    IF idxs = <<>> THEN cs
    ELSE variable_setitem_many(
             variable_setitem_one(cs, Head(idxs), Head(values)),
             Tail(idxs), Tail(values))

\* variable[key] for a row number or a list of row numbers
variable_getitem(cs, key) ==
    IF key[1] = "list"
    THEN IF \E k \in DOMAIN key[2] : key[2][k] >= Len(cs)
         THEN Raise("IndexError")
         ELSE <<"array", [k \in DOMAIN key[2] |-> cs[key[2][k] + 1]]>>
    ELSE IF key[2] >= Len(cs) THEN Raise("IndexError")
    ELSE cs[key[2] + 1]

\* 'index' getter: [None if int(w) < 0 else int(w) for w in v.tolist()] if
\* hasattr(v, '__iter__') else None if int(v) < 0 else int(v); a masked
\* element has no int value
index_getter_one(w) == IF w[2] < 0 THEN None ELSE <<"int", w[2]>>

index_getter(v) ==
    IF v[1] = "array"
    THEN IF \E k \in DOMAIN v[2] : v[2][k] = Masked
         THEN Raise("TypeError")
         ELSE <<"list", [k \in DOMAIN v[2] |-> index_getter_one(v[2][k])]>>
    ELSE IF v = Masked THEN Raise("TypeError")
    ELSE index_getter_one(v)

\* the getter of a maskable variable, _get2(my_getter): None for an element
\* that has a mask, my_getter for the others
maskable_getter_unmasked(v) == index_getter(v)

maskable_getter(v) ==
    IF v[1] = "array"
    THEN <<"list", [k \in DOMAIN v[2] |->
                       IF v[2][k] = Masked THEN None
                       ELSE index_getter(v[2][k])]>>
    ELSE IF v = Masked THEN None
    ELSE index_getter(v)

\* the getter create_variable_delegate hands to the ValueDelegate
variable_getter(v) == IF vmaskable THEN maskable_getter(v) ELSE index_getter(v)

\* ValueDelegate.__setitem__: self.variable[key] = self.setter(value)
ValueDelegate___setitem__(cs, key, value) ==
    LET x == index_setter(value)
    IN  IF key[1] = "list" THEN variable_setitem_many(cs, key[2], x[2])
        ELSE variable_setitem_one(cs, key[2], x)

\* ValueDelegate.__getitem__: self.getter(self.variable[key])
ValueDelegate___getitem__(cs, key) ==
    LET raw == variable_getitem(cs, key)
    IN  IF IsRaise(raw) THEN raw ELSE variable_getter(raw)

\* item if type(item) is int else self.store.index[item]
KeyIdx(item) == IF item[1] = "int" THEN item[2] ELSE vkeys[item[2]]

KeyIdxs(key) == [k \in DOMAIN key[2] |-> KeyIdx(key[2][k])]

\* idxs.index(val)
IndexIn(s, x) == CHOOSE i \in DOMAIN s : s[i] = x /\ \A j \in 1 .. (i - 1) : s[j] # x

\* sorted(list(set(idxs)))
RECURSIVE SortedSet(_)
SortedSet(S) ==
    IF S = {} THEN <<>>
    ELSE LET lo == CHOOSE x \in S : \A y \in S : x <= y
         IN  <<lo>> \o SortedSet(S \ {lo})

\* KeyDelegate.__setitem__
KeyDelegate___setitem__(cs, key, value) ==
    IF key[1] = "list"
    THEN LET idxs == KeyIdxs(key)
             sorted_idxs == SortedSet(Range(idxs))
             sorted_values == [k \in DOMAIN sorted_idxs |->
                                  value[2][IndexIn(idxs, sorted_idxs[k])]]
         IN  ValueDelegate___setitem__(cs, <<"list", sorted_idxs>>,
                                       <<"list", sorted_values>>)
    ELSE ValueDelegate___setitem__(cs, <<"int", KeyIdx(key)>>, value)

\* KeyDelegate.__getitem__
KeyDelegate___getitem___sorted(cs, key) ==
    IF key[1] = "list"
    THEN LET idxs == KeyIdxs(key)
             sorted_idxs == SortedSet(Range(idxs))
         IN  ValueDelegate___getitem__(cs, <<"list", sorted_idxs>>)
    ELSE ValueDelegate___getitem__(cs, <<"int", KeyIdx(key)>>)

KeyDelegate___getitem__(cs, key) ==
    IF key[1] = "list"
    THEN LET idxs == KeyIdxs(key)
             sorted_idxs == SortedSet(Range(idxs))
             sorted_values == ValueDelegate___getitem__(cs,
                                                        <<"list", sorted_idxs>>)
         IN  IF IsRaise(sorted_values) THEN sorted_values
             ELSE <<"list", [k \in DOMAIN idxs |->
                     sorted_values[2][IndexIn(sorted_idxs, idxs[k])]]>>
    ELSE ValueDelegate___getitem__(cs, <<"int", KeyIdx(key)>>)

\* clone_storage onto a container that has the variable already:
\* new_storage.variables[variable][idx] = self.variables[variable][idx]
\* for every row of the source
RECURSIVE clone_rows(_, _, _)
clone_rows(cs, src, n) ==
    IF n > Len(src) THEN cs
    ELSE clone_rows(IF n <= Len(cs) THEN [cs EXCEPT ![n] = src[n]]
                    ELSE Append(cs, src[n]),
                    src, n + 1)

SourceCells ==
    SeqsUpTo({Masked} \cup {ToCell(index_setter(v)) : v \in IndexValues},
             MaxVarRows)

\* key lists that come back to a key: <<a, b, a>>
RepeatingKeys == {<<"list", <<a, b, a>>>> : a, b \in ScalarKeys}

InitVar ==
    /\ OnlyVar
    /\ vmaskable \in BOOLEAN
    /\ vkeys \in {f \in [VarObjs -> VarRows] : \A x, y \in VarObjs : f[x] = f[y] => x = y}
    /\ vcells = <<>>
    /\ vout = [op |-> "none"]

ValuesFor(key) ==
    IF key[1] = "list"
    THEN {<<"list", vs>> : vs \in [DOMAIN key[2] -> IndexValues]}
    ELSE IndexValues

\* the caller writes through the delegate: delegate[key] = value
VarWrite(key, value) ==
    /\ vcells' = KeyDelegate___setitem__(vcells, key, value)
    /\ vout' = [op |-> "write"]
    /\ UNCHANGED <<vmaskable, vkeys>>
    /\ UNCHANGED exceptVar

\* the caller reads through the delegate: delegate[key]
VarRead(key) ==
    /\ vout' = IF key[1] = "list"
               THEN [op |-> "read many",
                     repeated |-> (Cardinality(Range(KeyIdxs(key))) < Len(key[2])),
                     unsorted |-> (\E j, k \in DOMAIN key[2] :
                                      j < k /\ KeyIdx(key[2][j]) > KeyIdx(key[2][k])),
                     raised |-> IsRaise(KeyDelegate___getitem__(vcells, key))]
               ELSE [op |-> "read",
                     value |-> KeyDelegate___getitem__(vcells, key)]
    /\ UNCHANGED <<vmaskable, vkeys, vcells>>
    /\ UNCHANGED exceptVar

\* another container is cloned onto this one
CloneStorage(src) ==
    /\ vcells' = clone_rows(vcells, src, 1)
    /\ vout' = [op |-> "clone"]
    /\ UNCHANGED <<vmaskable, vkeys>>
    /\ UNCHANGED exceptVar

NextVar ==
    \/ \E key \in ScalarKeys \cup ListKeys :
          \E value \in ValuesFor(key) : VarWrite(key, value)
    \/ \E key \in ScalarKeys \cup ListKeys \cup RepeatingKeys : VarRead(key)
    \/ \E src \in SourceCells : CloneStorage(src)

SpecVar == InitVar /\ [][NextVar]_vars

\* C13 (append-only rows): no step makes the variable shorter, and no step
\* changes a written cell; the only change of a cell is the first fill of an
\* unset cell of a maskable variable.
C13_AppendOnly ==
    [][/\ Len(vcells') >= Len(vcells)
       /\ \A i \in DOMAIN vcells :
             vcells'[i] # vcells[i] => (vmaskable /\ vcells[i] = Masked)]_vars

ReadOne(cs, i) == ValueDelegate___getitem__(cs, <<"int", i>>)

RealValues == IndexValues \ {None}

KeyLists == SeqsUpTo(ScalarKeys, MaxKeys) \ {<<>>}

\* C18 (batched read order): a vectorized read through the KeyDelegate
\* gives one element for every key, the j-th being what the read of the
\* j-th key alone gives, for keys in any order and with repetitions.
C18_BatchedReadOrder ==
    \A ks \in KeyLists :
        LET r == KeyDelegate___getitem__(vcells, <<"list", ks>>)
            one == [j \in DOMAIN ks |-> KeyDelegate___getitem__(vcells, ks[j])]
        IN  (\A j \in DOMAIN ks : ~IsRaise(one[j])) =>
                /\ ~IsRaise(r)
                /\ Len(r[2]) = Len(ks)
                /\ \A j \in DOMAIN ks : r[2][j] = one[j]

\* a vectorized read with a repeated key and keys out of order has returned
\* from rows that hold different values
C18_Witness ==
    /\ vout.op = "read many"
    /\ vout.repeated
    /\ vout.unsorted
    /\ ~vout.raised
    /\ \E i, j \in DOMAIN vcells : ReadOne(vcells, i - 1) # ReadOne(vcells, j - 1)

CtorArgs == {"a", "b"}

DictKeys == CtorArgs \cup {"name"}

\* what the body of a constructor does once its arguments are bound
CtorOutcomes == {"ok", "TypeError", "ValueError"}

\* a class: the arguments of __init__ (cls.args()), those without a default,
\* _restore_non_initial_attr, _restore_name, and the body of __init__
RecClasses ==
    {c \in [args : SUBSET CtorArgs, required : SUBSET CtorArgs,
            restore_non_initial_attr : BOOLEAN, restore_name : BOOLEAN,
            init : CtorOutcomes] : c.required \subseteq c.args}

RecDicts == {None} \cup {<<"dict", ks>> : ks \in SUBSET DictKeys}

\* cls(**init_dct): binding the arguments raises TypeError when one without
\* a default is missing, else the body of __init__ runs
Construct(cls, init_dct) ==
    IF ~(cls.required \subseteq init_dct) THEN Raise("TypeError")
    ELSE IF cls.init # "ok" THEN Raise(cls.init)
    ELSE <<"obj", init_dct>>

\* StorableObject.from_dict: a TypeError raised in the try block is printed
\* and the function ends without a return statement; any other exception
\* leaves the function
StorableObject_from_dict(cls, dct) ==
    LET d == IF dct = None THEN {} ELSE dct[2]
        init_dct == d \cap cls.args
        non_init_dct == d \ cls.args
        obj == Construct(cls, init_dct)
    IN  IF obj = Raise("TypeError") THEN None
        ELSE IF IsRaise(obj) THEN obj
        ELSE IF cls.restore_non_initial_attr
             THEN <<"obj", obj[2] \cup non_init_dct>>
        ELSE IF cls.restore_name /\ "name" \in d
             THEN <<"obj", obj[2] \cup {"name"}>>
        ELSE obj

\* set_uuid(obj, uuid): obj.__uuid__ = long(uuid); None takes no attribute
rec_set_uuid(obj) ==
    IF IsRaise(obj) THEN obj
    ELSE IF obj = None THEN Raise("AttributeError")
    ELSE <<"obj", obj[2] \cup {"__uuid__"}>>

\* the body of the loop of deserialize:
\* new_uuids[node] = from_json_obj(...), which returns cls.from_dict(dct)
deserialize_node(cls, dct) == StorableObject_from_dict(cls, dct)

\* SchemaDeserializer.__call__: obj = self.cls.from_dict(dct), then
\* set_uuid(obj, uuid), then return obj
SchemaDeserializer___call__(cls, dct) ==
    rec_set_uuid(StorableObject_from_dict(cls, dct))

InitRec ==
    /\ OnlyRec
    /\ rcaller \in {"deserialize", "SchemaDeserializer"}
    /\ rcls \in RecClasses
    /\ rdct \in RecDicts
    /\ rres = None
    /\ rpc = "call"

\* one pass of the loop of deserialize
DeserializeNode ==
    /\ rpc = "call"
    /\ rcaller = "deserialize"
    /\ rres' = deserialize_node(rcls, rdct)
    /\ rpc' = "done"
    /\ UNCHANGED <<rcaller, rcls, rdct>>
    /\ UNCHANGED exceptRec

\* one call of a SchemaDeserializer
SchemaDeserializerCall ==
    /\ rpc = "call"
    /\ rcaller = "SchemaDeserializer"
    /\ rres' = SchemaDeserializer___call__(rcls, rdct)
    /\ rpc' = "done"
    /\ UNCHANGED <<rcaller, rcls, rdct>>
    /\ UNCHANGED exceptRec

NextRec ==
    \/ DeserializeNode
    \/ SchemaDeserializerCall

SpecRec == InitRec /\ [][NextRec]_vars

\* the constructor of the class fails on the dictionary
ConstructorFails(cls, dct) ==
    IsRaise(Construct(cls, (IF dct = None THEN {} ELSE dct[2]) \cap cls.args))

\* C15: every failure while an object is reconstructed, a failing
\* constructor inside from_dict included, reaches the caller as a failure;
\* the reconstruction never ends normally with None in place of the object.
C15_NoSwallowedErrors ==
    (rpc = "done" /\ ConstructorFails(rcls, rdct)) => IsRaise(rres)

(***************************************************************************)
(* SpecTypes: the attribute handlers of one table.  In new/serialization.py*)
(* register_serialization builds the serializer and the deserializer       *)
(* dictionaries of a table and default_serialize / default_deserialize     *)
(* apply them; in experimental/simstore the constructors of                *)
(* SchemaSerializer and SchemaDeserializer build attribute_handlers and    *)
(* __call__ / make_dct apply them.  A handler is <<"fn", name>>, a value   *)
(* after a handler ran is <<"by", name>>, an untouched value is <<"raw">>. *)
(***************************************************************************)
MaxEntries == 2

AttrNames == <<"x", "y", "z">>

NdarrayTypes == {"ndarray.float32(2,3)"}

TypeNames == {"int", "uuid", "json", "quaternion"} \cup NdarrayTypes

\* Serialization.builtin_types
builtin_types == {"int", "float", "str"}

\* the logical types the schema layer knows
KnownTypes ==
    builtin_types \cup {"uuid", "list_uuid", "lazy", "json"} \cup NdarrayTypes

TypeEntries ==
    UNION {{[i \in 1..n |-> <<AttrNames[i], t[i]>>] : t \in [1..n -> TypeNames]} :
              n \in 1..MaxEntries}

Fn(name) == <<"fn", name>>

\* my_types.parse_ndarray_type / ndarray_re.match: (dtype, shape) of an
\* ndarray type name, None for any other name
parse_ndarray_type(type_name) ==
    IF type_name \in NdarrayTypes THEN <<"float32", <<2, 3>>>> ELSE None

\* Serialization.attribute_serializer
Serialization_attribute_serializer(type_name) ==
    CASE type_name \in {"uuid", "lazy"} -> Fn("get_uuid")
      [] type_name \in {"json", "list_uuid"} -> Fn("to_bare_json")
      [] parse_ndarray_type(type_name) # None -> Fn("tostring")
      [] OTHER -> Raise("TypeError")

\* Serialization.attribute_deserializer: it ends without a return statement
\* for a name that is neither in attribute_deserializers nor an ndarray type
Serialization_attribute_deserializer(type_name) ==
    CASE type_name = "uuid" -> Fn("from_json_obj")
      [] type_name = "lazy" -> Fn("make_lazy")
      [] type_name \in {"json", "list_uuid"} -> Fn("from_bare_json")
      [] parse_ndarray_type(type_name) # None -> Fn("fromstring")
      [] OTHER -> None

attribute_handler(direction, type_name) ==
    IF direction = "serialize"
    THEN Serialization_attribute_serializer(type_name)
    ELSE Serialization_attribute_deserializer(type_name)

\* Serialization._serialization_dict: None for a builtin type, else what the
\* attribute handler gives; an exception of the handler ends the loop
RECURSIVE Serialization__serialization_dict(_, _)
Serialization__serialization_dict(direction, table_description) ==
    IF table_description = <<>> THEN <<"dict", <<>>>>
    ELSE LET attr == Head(table_description)[1]
             type_name == Head(table_description)[2]
             h == IF type_name \in builtin_types THEN None
                  ELSE attribute_handler(direction, type_name)
             rest == Serialization__serialization_dict(direction,
                                                       Tail(table_description))
         IN  IF IsRaise(h) THEN h
             ELSE IF IsRaise(rest) THEN rest
             ELSE <<"dict", rest[2] @@ (attr :> h)>>

\* calling a handler on a value; None is not callable
CallHandler(h) == IF h = None THEN Raise("TypeError") ELSE <<"by", h[2]>>

\* Serialization.default_serialize
Serialization_default_serialize(serializer_dict, schema) ==
    InSchemaOrder(schema,
        [attr \in SchemaAttrs(schema) |->
            IF attr \notin DOMAIN serializer_dict THEN <<"raw">>
            ELSE CallHandler(serializer_dict[attr])])

\* Serialization.default_deserialize
Serialization_default_deserialize(deserializer_dict, schema) ==
    InSchemaOrder(schema,
        [attr \in SchemaAttrs(schema) |->
            IF AttrType(schema, attr) = "lazy" THEN <<"by", "make_lazy">>
            ELSE IF attr \notin DOMAIN deserializer_dict THEN Raise("KeyError")
            ELSE CallHandler(deserializer_dict[attr])])

\* ToDictSerializer.default_handlers and SchemaDeserializer.default_handlers
default_handlers(direction) ==
    IF direction = "serialize"
    THEN [t \in {"uuid", "lazy", "json", "json_obj", "list_uuid"} |->
             CASE t \in {"uuid", "lazy"} -> Fn("get_uuid")
               [] t = "json_obj" -> Fn("to_json_obj")
               [] OTHER -> Fn("to_bare_json")]
    ELSE [t \in {"lazy", "uuid", "list_uuid"} |->
             IF t = "list_uuid" THEN Fn("load_list_uuid")
             ELSE Fn("search_caches")]

\* SchemaDeserializer.init_attribute_handlers, inherited by the serializers:
\* only an attribute that got a handler is entered
init_attribute_handlers(direction, entries) ==
    LET handler(type_name) ==
            IF type_name \in DOMAIN default_handlers(direction)
            THEN default_handlers(direction)[type_name]
            ELSE IF parse_ndarray_type(type_name) # None
                 THEN Fn("make_numpy_handler")
            ELSE None
        handled == {a \in SchemaAttrs(entries) :
                       handler(AttrType(entries, a)) # None}
    IN  <<"dict", [a \in handled |-> handler(AttrType(entries, a))]>>

\* SchemaDeserializer.make_dct and the replacement in SchemaSerializer.__call__:
\* the handled attributes are converted, the others stay as they are
make_dct(attribute_handlers, entries) ==
    <<"dict", [attr \in SchemaAttrs(entries) |->
                  IF attr \in DOMAIN attribute_handlers
                  THEN CallHandler(attribute_handlers[attr])
                  ELSE <<"raw">>]>>

NoOperation == [op |-> "none", result |-> None]

InitTypes ==
    /\ OnlyTypes
    /\ tlayer \in {"Serialization", "simstore"}
    /\ tentries \in TypeEntries
    /\ tcustom \in [serializer : BOOLEAN, deserializer : BOOLEAN]
    /\ tlayer = "simstore" => tcustom = [serializer |-> FALSE, deserializer |-> FALSE]
    /\ tser = None
    /\ tdeser = None
    /\ tout = NoOperation
    /\ tpc = "start"

\* Serialization.register_serialization for the table
RegisterSerialization ==
    /\ tlayer = "Serialization"
    /\ tpc = "start"
    /\ LET s == IF tcustom.serializer THEN Fn("serializer")
                ELSE Serialization__serialization_dict("serialize", tentries)
           d == IF tcustom.deserializer THEN Fn("deserializer")
                ELSE Serialization__serialization_dict("deserialize", tentries)
       IN  IF IsRaise(s)
           THEN /\ tout' = [op |-> "register", result |-> s]
                /\ tpc' = "failed"
                /\ UNCHANGED <<tser, tdeser>>
           ELSE /\ tser' = s
                /\ tdeser' = d
                /\ tout' = [op |-> "register", result |-> None]
                /\ tpc' = "registered"
    /\ UNCHANGED <<tlayer, tentries, tcustom>>
    /\ UNCHANGED exceptTypes

\* Serialization.serialize[table](obj) of a table with the default serializer
DefaultSerialize ==
    /\ tlayer = "Serialization"
    /\ tpc = "registered"
    /\ Tag(tser) = "dict"
    /\ tout' = [op |-> "serialize",
                result |-> Serialization_default_serialize(tser[2], tentries)]
    /\ UNCHANGED <<tlayer, tentries, tcustom, tser, tdeser, tpc>>
    /\ UNCHANGED exceptTypes

\* Serialization.default_deserialize of a row of the table
DefaultDeserialize ==
    /\ tlayer = "Serialization"
    /\ tpc = "registered"
    /\ Tag(tdeser) = "dict"
    /\ tout' = [op |-> "deserialize",
                result |-> Serialization_default_deserialize(tdeser[2], tentries)]
    /\ UNCHANGED <<tlayer, tentries, tcustom, tser, tdeser, tpc>>
    /\ UNCHANGED exceptTypes

\* SchemaSerializer(schema, table, cls)
NewSchemaSerializer ==
    /\ tlayer = "simstore"
    /\ tser = None
    /\ tser' = init_attribute_handlers("serialize", tentries)
    /\ tout' = [op |-> "new serializer", result |-> None]
    /\ UNCHANGED <<tlayer, tentries, tcustom, tdeser, tpc>>
    /\ UNCHANGED exceptTypes

\* SchemaDeserializer(schema, table, cls)
NewSchemaDeserializer ==
    /\ tlayer = "simstore"
    /\ tdeser = None
    /\ tdeser' = init_attribute_handlers("deserialize", tentries)
    /\ tout' = [op |-> "new deserializer", result |-> None]
    /\ UNCHANGED <<tlayer, tentries, tcustom, tser, tpc>>
    /\ UNCHANGED exceptTypes

\* SchemaSerializer.__call__(obj)
SchemaSerialize ==
    /\ tlayer = "simstore"
    /\ tser # None
    /\ tout' = [op |-> "serialize", result |-> make_dct(tser[2], tentries)]
    /\ UNCHANGED <<tlayer, tentries, tcustom, tser, tdeser, tpc>>
    /\ UNCHANGED exceptTypes

\* SchemaDeserializer.make_dct(table_dct, cache_list), the first step of
\* SchemaDeserializer.__call__
SchemaDeserialize ==
    /\ tlayer = "simstore"
    /\ tdeser # None
    /\ tout' = [op |-> "deserialize", result |-> make_dct(tdeser[2], tentries)]
    /\ UNCHANGED <<tlayer, tentries, tcustom, tser, tdeser, tpc>>
    /\ UNCHANGED exceptTypes

NextTypes ==
    \/ RegisterSerialization
    \/ DefaultSerialize
    \/ DefaultDeserialize
    \/ NewSchemaSerializer
    \/ NewSchemaDeserializer
    \/ SchemaSerialize
    \/ SchemaDeserialize

SpecTypes == InitTypes /\ [][NextTypes]_vars

\* the attributes of the table whose logical type is not a known one
UnknownAttrs == {a \in SchemaAttrs(tentries) : AttrType(tentries, a) \notin KnownTypes}

\* the handlers built from the schema itself
BuiltHandlers == {h \in {tser, tdeser} : Tag(h) = "dict"}

\* C16: for a schema attribute of an unknown logical type both directions
\* fail, in building or in applying the handlers: no handler None is
\* registered for the attribute, and no serialization or deserialization of
\* the table ends normally (with the attribute passed through unconverted).
C16_UnknownLogicalType ==
    UnknownAttrs # {} =>
        /\ \A h \in BuiltHandlers : \A a \in UnknownAttrs \cap DOMAIN h[2] :
               h[2][a] # None
        /\ tout.op \in {"serialize", "deserialize"} => IsRaise(tout.result)

(***************************************************************************)
(* SpecDim: the dimensions and variables of an open container, declared    *)
(* through NetCDFPlus.create_dimension and NetCDFPlus.create_variable.     *)
(* A size is None (unlimited) or <<"int", n>>.                             *)
(***************************************************************************)
MaxDimSize == 2

DimVarNames == {"v", "w"}

\* var_name + '_dim_' + str(ix) for the first dimension of a variable
ImplicitDimName(var_name) == IF var_name = "v" THEN "v_dim_0" ELSE "w_dim_0"

DimNames == {"d"} \cup {ImplicitDimName(v) : v \in DimVarNames}

DimSizes == {None} \cup {<<"int", n>> : n \in 1..MaxDimSize}

\* the dimensions argument of create_variable: one name or one int
DimSpecs == {<<"name", "d">>} \cup {<<"int", n>> : n \in 1..MaxDimSize}

\* NetCDFPlus.create_dimension: createDimension only for a new name
create_dimension(dims, dim_name, size) ==
    IF dim_name \notin DOMAIN dims THEN (dim_name :> size) @@ dims ELSE dims

\* the name and size of the dimension create_variable declares for an int
new_dimensions(var_name, dim) ==
    IF dim[1] = "int" THEN {<<ImplicitDimName(var_name), dim>>} ELSE {}

\* ncfile.createVariable(var_name, nc_type, dimensions): netCDF4 refuses a
\* name in use and a dimension that does not exist
createVariable(vs, dims, var_name, dim_name) ==
    IF var_name \in DOMAIN vs THEN Raise("RuntimeError")
    ELSE IF dim_name \notin DOMAIN dims THEN Raise("KeyError")
    ELSE <<"vars", (var_name :> <<dim_name>>) @@ vs>>

\* a declaration of dim_name with size meets a dimension declared otherwise
Redeclares(dims, dim_name, size) ==
    dim_name \in DOMAIN dims /\ dims[dim_name] # size

NoDeclaration == [op |-> "none", conflict |-> FALSE, raised |-> "none"]

\* NetCDFPlus.__init__ with mode 'w' declares the dimension 'scalar'
InitDim ==
    /\ OnlyDim
    /\ ncdims = ("scalar" :> <<"int", 1>>)
    /\ ncvars = <<>>
    /\ ncout = NoDeclaration

\* storage.create_dimension(dim_name, size)
CreateDimension(dim_name, size) ==
    /\ ncdims' = create_dimension(ncdims, dim_name, size)
    /\ ncout' = [op |-> "create_dimension",
                 conflict |-> Redeclares(ncdims, dim_name, size),
                 raised |-> "none"]
    /\ UNCHANGED ncvars
    /\ UNCHANGED exceptDim

\* storage.create_variable(var_name, var_type, dimensions): the dimensions
\* given as ints are declared, then the variable is created
CreateVariable(var_name, dim) ==
    LET new == new_dimensions(var_name, dim)
        dim_name == IF dim[1] = "int" THEN ImplicitDimName(var_name) ELSE dim[2]
        dims == IF new = {} THEN ncdims
                ELSE create_dimension(ncdims, dim_name, dim)
        r == createVariable(ncvars, dims, var_name, dim_name)
    IN  /\ ncdims' = dims
        /\ ncvars' = IF IsRaise(r) THEN ncvars ELSE r[2]
        /\ ncout' = [op |-> "create_variable",
                     conflict |-> \E d \in new : Redeclares(ncdims, d[1], d[2]),
                     raised |-> IF IsRaise(r) THEN r[2] ELSE "none"]
        /\ UNCHANGED exceptDim

NextDim ==
    \/ \E dim_name \in DimNames, size \in DimSizes : CreateDimension(dim_name, size)
    \/ \E var_name \in DimVarNames, dim \in DimSpecs : CreateVariable(var_name, dim)

SpecDim == InitDim /\ [][NextDim]_vars

\* C20: declaring a dimension under a name that exists with another size (or
\* another boundedness) fails with an error; only a declaration with the
\* same parameters is accepted.
C20_DimensionRedeclaration ==
    (ncout.op = "create_dimension" /\ ncout.conflict) => ncout.raised # "none"

(***************************************************************************)
(* SpecOpen: opening a container file.  NetCDFPlus.__init__ looks whether  *)
(* the file exists, hands filename and mode to netCDF4.Dataset, registers   *)
(* the stores and then sets up a new file (mode 'w') or restores from an   *)
(* existing one.  A file is <<"file", dimensions, rows>>.                  *)
(***************************************************************************)
MaxFileRows == 2

OpenModes == {"default", "a", "w", "r", "r+"}

FileDims == {"scalar", "d", "e"}

NewFile == <<"file", {}, 0>>

\* netCDF4.Dataset(filename, mode): 'w' creates the file and deletes an
\* existing one, 'a', 'r+' and 'r' open an existing file
Dataset___init__(file, mode) ==
    IF mode = "w" THEN NewFile
    ELSE IF file = None THEN Raise("RuntimeError")
    ELSE file

\* NetCDFPlus.__init__(filename, mode): the file afterwards, the storage
\* object, and the exception raised
NetCDFPlus___init__(file, mode0) ==
    LET mode == IF mode0 = "default" THEN "a" ELSE mode0
        exists == file # None
        opened == Dataset___init__(file, mode)
    IN  IF ~exists /\ mode = "r"
        THEN [file |-> file, storage |-> None, raised |-> "RuntimeError"]
        ELSE IF IsRaise(opened)
        THEN [file |-> file, storage |-> None, raised |-> opened[2]]
        ELSE IF mode = "w"
        THEN [file |-> <<"file", opened[2] \cup {"scalar"}, opened[3]>>,
              storage |-> <<"open", mode, "stores registered">>,
              raised |-> "none"]
        ELSE [file |-> opened,
              storage |-> <<"open", mode, "stores registered">>,
              raised |-> "none"]

NoOpenYet == [op |-> "none", mode |-> "none", existed |-> FALSE, raised |-> "none"]

InitOpen ==
    /\ OnlyOpen
    /\ ofile = None
    /\ ostorage = None
    /\ oout = NoOpenYet

\* storage = NetCDFPlus(filename, mode)
OpenStorage(mode) ==
    /\ ostorage = None
    /\ LET r == NetCDFPlus___init__(ofile, mode)
       IN  /\ ofile' = r.file
           /\ ostorage' = r.storage
           /\ oout' = [op |-> "open", mode |-> mode, existed |-> ofile # None,
                       raised |-> r.raised]
    /\ UNCHANGED exceptOpen

\* storage.create_dimension(dim_name) on a container open for writing
OpenCreateDimension(dim_name) ==
    /\ ostorage # None
    /\ ostorage[2] # "r"
    /\ dim_name \notin ofile[2]
    /\ ofile' = <<"file", ofile[2] \cup {dim_name}, ofile[3]>>
    /\ oout' = [oout EXCEPT !.op = "create_dimension"]
    /\ UNCHANGED ostorage
    /\ UNCHANGED exceptOpen

\* a row is written to a container open for writing
OpenWriteRow ==
    /\ ostorage # None
    /\ ostorage[2] # "r"
    /\ ofile[3] < MaxFileRows
    /\ ofile' = <<"file", ofile[2], ofile[3] + 1>>
    /\ oout' = [oout EXCEPT !.op = "write"]
    /\ UNCHANGED ostorage
    /\ UNCHANGED exceptOpen

\* storage.close()
CloseStorage ==
    /\ ostorage # None
    /\ ostorage' = None
    /\ oout' = [oout EXCEPT !.op = "close"]
    /\ UNCHANGED ofile
    /\ UNCHANGED exceptOpen

\* the file is removed while no container is open on it
RemoveFile ==
    /\ ostorage = None
    /\ ofile # None
    /\ ofile' = None
    /\ oout' = [oout EXCEPT !.op = "remove"]
    /\ UNCHANGED ostorage
    /\ UNCHANGED exceptOpen

NextOpen ==
    \/ \E mode \in OpenModes : OpenStorage(mode)
    \/ \E dim_name \in FileDims : OpenCreateDimension(dim_name)
    \/ OpenWriteRow
    \/ CloseStorage
    \/ RemoveFile

SpecOpen == InitOpen /\ [][NextOpen]_vars

\* the content of a container right after its creation
FreshContent == <<"file", {"scalar"}, 0>>

\* C21: opening a missing path for reading fails before a file is created
\* or a store is registered; opening an existing path for writing leaves
\* only the freshly initialized content; every other combination of mode
\* (write, append, default) and existence opens successfully.
C21_OpenModes ==
    (oout.op = "open" /\ oout.mode \in {"default", "a", "w", "r"}) =>
        IF oout.mode = "r" /\ ~oout.existed
        THEN oout.raised # "none" /\ ofile = None /\ ostorage = None
        ELSE /\ oout.raised = "none"
             /\ ostorage # None
             /\ (oout.mode = "w" /\ oout.existed) => ofile = FreshContent

(***************************************************************************)
(* SpecLazy: one attribute declared with lazy_loading_attributes on two    *)
(* instances of the class.  The descriptor DelayedLoader keeps the value   *)
(* in the instance's _lazy dict, keyed by the descriptor: an object, None, *)
(* a (store, idx) tuple or a LoaderProxy.  The store holds a row for every *)
(* idx used here, and store[idx] gives the object of the row.              *)
(***************************************************************************)
NumLazyObjs == 2
LazyRows == 1

LazyInstances == {"s1", "s2"}

LazyAttr == "parent"

\* the object store[idx] gives
LazyStore_getitem(i) == <<"obj", NumLazyObjs + i>>

EagerValues == {None} \cup {<<"obj", n>> : n \in 0..(NumLazyObjs - 1)}

StoredValues ==
    EagerValues
      \cup {<<"tuple", i>> : i \in 0..(LazyRows - 1)}
      \cup {<<"LoaderProxy", i>> : i \in 0..(LazyRows - 1)}

\* hasattr(obj, '_idx'): of the values an attribute takes only a LoaderProxy
\* has the slot _idx
has_idx(obj) == Tag(obj) = "LoaderProxy"

\* DelayedLoader.__get__(instance, owner) without the resolving branches
DelayedLoader___get___stored(lz, instance) ==
    IF instance = None THEN <<"DelayedLoader">>
    ELSE IF LazyAttr \notin DOMAIN lz[instance[2]] THEN Raise("KeyError")
    ELSE lz[instance[2]][LazyAttr]

\* DelayedLoader.__get__(instance, owner); the instance is None for a read
\* on the class, else <<"inst", s>>
DelayedLoader___get__(lz, instance) ==
    IF instance = None THEN <<"DelayedLoader">>
    ELSE IF LazyAttr \notin DOMAIN lz[instance[2]] THEN Raise("KeyError")
    ELSE LET obj == lz[instance[2]][LazyAttr]
         IN  IF Tag(obj) = "tuple" THEN LazyStore_getitem(obj[2])
             ELSE IF has_idx(obj) THEN LazyStore_getitem(obj[2])
             ELSE obj

\* DelayedLoader.__set__(instance, value): instance._lazy[self] = value
DelayedLoader___set__(lz, instance, value) ==
    [lz EXCEPT ![instance] = (LazyAttr :> value) @@ lz[instance]]

\* the wrapped __init__ of lazy_loading_attributes: self._lazy = dict()
InitLazy ==
    /\ OnlyLazy
    /\ zlazy = [s \in LazyInstances |-> <<>>]
    /\ zout = [op |-> "none", instance |-> None, over |-> "none", result |-> None]

Stored(lz, instance) ==
    IF LazyAttr \in DOMAIN lz[instance] THEN lz[instance][LazyAttr] ELSE <<"unset">>

\* instance.parent = value
LazySetAttr(instance, value) ==
    /\ zlazy' = DelayedLoader___set__(zlazy, instance, value)
    /\ zout' = [op |-> "set", instance |-> <<"inst", instance>>,
                over |-> Tag(Stored(zlazy, instance)), result |-> None]
    /\ UNCHANGED exceptLazy

\* instance.parent
LazyGetAttr(instance) ==
    /\ zout' = [op |-> "get", instance |-> <<"inst", instance>>,
                over |-> IF zout.op \in {"set", "get"}
                              /\ zout.instance = <<"inst", instance>>
                         THEN zout.over ELSE "none",
                result |-> DelayedLoader___get__(zlazy, <<"inst", instance>>)]
    /\ UNCHANGED zlazy
    /\ UNCHANGED exceptLazy

\* cls.parent: the descriptor read on the class
LazyClassGet ==
    /\ zout' = [op |-> "class get", instance |-> None, over |-> "none",
                result |-> DelayedLoader___get__(zlazy, None)]
    /\ UNCHANGED zlazy
    /\ UNCHANGED exceptLazy

NextLazy ==
    \/ \E instance \in LazyInstances, value \in StoredValues :
           LazySetAttr(instance, value)
    \/ \E instance \in LazyInstances : LazyGetAttr(instance)
    \/ LazyClassGet

SpecLazy == InitLazy /\ [][NextLazy]_vars

\* C22: a read of a lazy attribute never gives a LoaderProxy or a (store,
\* idx) tuple: for a stored proxy or tuple it gives the object the store
\* loads, for a stored object exactly that object, also when the object
\* replaced a proxy; and setting the attribute on one instance changes no
\* read on another instance.
C22_LazyTransparent ==
    \A instance \in LazyInstances :
        LET v == Stored(zlazy, instance)
            r == DelayedLoader___get__(zlazy, <<"inst", instance>>)
        IN  /\ Tag(r) \notin {"LoaderProxy", "tuple"}
            /\ Tag(v) \in {"LoaderProxy", "tuple"} => r = LazyStore_getitem(v[2])
            /\ Tag(v) \in {"obj", "none"} => r = v
            /\ \A other \in LazyInstances \ {instance}, w \in StoredValues :
                   DelayedLoader___get__(DelayedLoader___set__(zlazy, other, w),
                                         <<"inst", instance>>) = r

C22_Witness ==
    /\ zout.op = "get"
    /\ zout.over = "LoaderProxy"
    /\ zout.result \in EagerValues \ {None}
    /\ \E other \in LazyInstances :
           /\ zout.instance # <<"inst", other>>
           /\ Tag(Stored(zlazy, other)) = "tuple"

(***************************************************************************)
(* SpecName: the name of a StorableNamedObject.  The object keeps _name    *)
(* ('' while it is unnamed) and _name_fixed; .name shows the default name  *)
(* for an unnamed object.                                                  *)
(***************************************************************************)
NamedObjs == {"o1", "o2"}

GivenNames == {"", "a", "b"}

\* StorableNamedObject.default_name: '[' + self.__class__.__name__ + ']'
default_name == "[StorableNamedObject]"

\* StorableNamedObject.name (getter)
name_getter(_name) == IF _name = "" THEN default_name ELSE _name

\* StorableNamedObject.name (setter): the new _name and the exception
name_setter(_name, _name_fixed, name) ==
    IF _name_fixed THEN [_name |-> _name, raised |-> "ValueError"]
    ELSE IF name # _name THEN [_name |-> name, raised |-> "none"]
    ELSE [_name |-> _name, raised |-> "none"]

\* StorableNamedObject.named(name): the new _name
named(_name, name) == IF _name = "" THEN name ELSE _name

\* StorableNamedObject.__init__
InitName ==
    /\ OnlyName
    /\ m_name = [o \in NamedObjs |-> ""]
    /\ m_fixed = [o \in NamedObjs |-> FALSE]
    /\ m_at = [o \in NamedObjs |-> None]
    /\ m_out = [op |-> "none", raised |-> "none"]

\* o.fix_name()
FixName(o) ==
    /\ m_fixed' = [m_fixed EXCEPT ![o] = TRUE]
    /\ m_at' = [m_at EXCEPT ![o] = IF m_fixed[o] THEN @
                                  ELSE <<"str", name_getter(m_name[o])>>]
    /\ m_out' = [op |-> "fix_name", raised |-> "none"]
    /\ UNCHANGED m_name
    /\ UNCHANGED exceptName

\* o.name = name
SetName(o, name) ==
    /\ LET r == name_setter(m_name[o], m_fixed[o], name)
       IN  /\ m_name' = [m_name EXCEPT ![o] = r._name]
           /\ m_out' = [op |-> "name", raised |-> r.raised]
    /\ UNCHANGED <<m_fixed, m_at>>
    /\ UNCHANGED exceptName

\* o.named(name)
Named(o, name) ==
    /\ m_name' = [m_name EXCEPT ![o] = named(m_name[o], name)]
    /\ m_out' = [op |-> "named", raised |-> "none"]
    /\ UNCHANGED <<m_fixed, m_at>>
    /\ UNCHANGED exceptName

NextName ==
    \/ \E o \in NamedObjs : FixName(o)
    \/ \E o \in NamedObjs, name \in GivenNames : SetName(o, name)
    \/ \E o \in NamedObjs, name \in GivenNames : Named(o, name)

SpecName == InitName /\ [][NextName]_vars

\* C23: once fix_name() was called on an object, no operation changes what
\* .name gives: the setter raises and named(...) changes nothing, also for
\* an object that was unnamed when fix_name() was called.
C23_NameFixing ==
    \A o \in NamedObjs :
        m_fixed[o] => <<"str", name_getter(m_name[o])>> = m_at[o]

(***************************************************************************)
(* SpecObs: the observer of StorableObject.  set_observer installs or      *)
(* removes an __init__ on the class that enters every new object in the    *)
(* weak dictionary _weak_cache, which count_weaks reads.  observe_objects  *)
(* is a class attribute and can also be assigned directly.                 *)
(***************************************************************************)
MaxObserved == 2

\* StorableObject.set_observer(active): the class after the call and the
\* exception raised.  The class body defines no __init__, so deleting it
\* raises AttributeError unless the counting __init__ is installed.
set_observer(observe, init, active) ==
    IF observe # active
    THEN [observe_objects |-> observe, init |-> init, raised |-> "none"]
    ELSE IF active
    THEN [observe_objects |-> TRUE, init |-> TRUE, raised |-> "none"]
    ELSE IF init
    THEN [observe_objects |-> observe, init |-> FALSE, raised |-> "none"]
    ELSE [observe_objects |-> observe, init |-> init, raised |-> "AttributeError"]

\* StorableObject.count_weaks(): the number of objects of the base class
count_weaks(weak_cache) == Cardinality(weak_cache)

InitObs ==
    /\ OnlyObs
    /\ observe_objects = FALSE
    /\ b_init = FALSE
    /\ b_weak_cache = {}
    /\ b_weak_index = 0
    /\ b_alive = <<>>
    /\ b_next = 1
    /\ b_out = [op |-> "none", active |-> FALSE, raised |-> "none", count |-> 0]

\* StorableObject.set_observer(active)
SetObserver(active) ==
    /\ LET r == set_observer(observe_objects, b_init, active)
       IN  /\ observe_objects' = r.observe_objects
           /\ b_init' = r.init
           /\ b_out' = [op |-> "set_observer", active |-> active,
                        raised |-> r.raised, count |-> 0]
    /\ UNCHANGED <<b_weak_cache, b_weak_index, b_alive, b_next>>
    /\ UNCHANGED exceptObs

\* StorableObject.observe_objects = value
AssignObserve(value) ==
    /\ observe_objects' = value
    /\ b_out' = [op |-> "assign", active |-> value, raised |-> "none", count |-> 0]
    /\ UNCHANGED <<b_init, b_weak_cache, b_weak_index, b_alive, b_next>>
    /\ UNCHANGED exceptObs

\* a storable object is constructed; an installed __init__ enters it in
\* _weak_cache under _weak_index
NewStorable ==
    /\ b_next <= MaxObserved
    /\ b_alive' = (b_next :> observe_objects) @@ b_alive
    /\ b_next' = b_next + 1
    /\ IF b_init
       THEN /\ b_weak_cache' = b_weak_cache \cup {b_next}
            /\ b_weak_index' = b_weak_index + 1
       ELSE UNCHANGED <<b_weak_cache, b_weak_index>>
    /\ b_out' = [op |-> "new", active |-> FALSE, raised |-> "none", count |-> 0]
    /\ UNCHANGED <<observe_objects, b_init>>
    /\ UNCHANGED exceptObs

\* the last reference to an object goes: the weak dictionary drops its key
DropStorable(o) ==
    /\ o \in DOMAIN b_alive
    /\ b_alive' = [x \in DOMAIN b_alive \ {o} |-> b_alive[x]]
    /\ b_weak_cache' = b_weak_cache \ {o}
    /\ b_out' = [op |-> "drop", active |-> FALSE, raised |-> "none", count |-> 0]
    /\ UNCHANGED <<observe_objects, b_init, b_weak_index, b_next>>
    /\ UNCHANGED exceptObs

\* StorableObject.count_weaks()
CountWeaks ==
    /\ b_out' = [op |-> "count_weaks", active |-> FALSE, raised |-> "none",
                 count |-> count_weaks(b_weak_cache)]
    /\ UNCHANGED <<observe_objects, b_init, b_weak_cache, b_weak_index, b_alive, b_next>>
    /\ UNCHANGED exceptObs

NextObs ==
    \/ \E active \in BOOLEAN : SetObserver(active)
    \/ \E value \in BOOLEAN : AssignObserve(value)
    \/ NewStorable
    \/ \E o \in 1..MaxObserved : DropStorable(o)
    \/ CountWeaks

SpecObs == InitObs /\ [][NextObs]_vars

\* C24: after set_observer(active) observing is enabled iff active is True,
\* from every previous state, and the call raises no error; a live object
\* constructed while observing is enabled is counted by count_weaks.
C24_ObserverSwitch ==
    /\ b_out.op = "set_observer" =>
           (b_out.raised = "none" /\ observe_objects = b_out.active)
    /\ \A o \in DOMAIN b_alive : b_alive[o] => o \in b_weak_cache

(***************************************************************************)
(* SpecSet: one SampleSet and the calls that change it.  A Sample is       *)
(* <<"Sample", trajectory, ensemble, replica>>; a replica is <<"int", n>>, *)
(* or a list, which is not hashable.  The set is a record of samples (a    *)
(* list), ensemble_dict and replica_dict (key -> list).  random.choice is  *)
(* a choice the caller of an operator makes.                               *)
(***************************************************************************)
MaxReplica == 1

SetEnsembles == {"e1", "e2"}

ListReplica == <<"list">>

IntReplicas == {<<"int", n>> : n \in 0..MaxReplica}

\* the samples the caller holds, and an object that is no Sample
CallerSamples ==
    {<<"Sample", "t1", "e1", <<"int", 0>>>>,
     <<"Sample", "t2", "e1", <<"int", 1>>>>,
     <<"Sample", "t3", "e2", <<"int", 0>>>>,
     <<"Sample", "t4", "e2", ListReplica>>}

NotASample == <<"Trajectory", "t5">>

IsSample(x) == Tag(x) = "Sample"

Hashable(key) == key # ListReplica

EmptySet == [samples |-> <<>>, ensemble_dict |-> <<>>, replica_dict |-> <<>>]

\* dict[key].append(sample), or dict[key] = [sample] after a KeyError
DictAppend(dict, key, sample) ==
    IF key \in DOMAIN dict
    THEN [dict EXCEPT ![key] = Append(@, sample)]
    ELSE (key :> <<sample>>) @@ dict

\* list.remove(sample)
ListRemove(list, sample) == SelectSeq(list, LAMBDA x : x # sample)

\* dict[key].remove(sample), then del dict[key] if the list is empty
DictRemove(dict, key, sample) ==
    LET rest == ListRemove(dict[key], sample)
    IN  IF rest = <<>> THEN [k \in DOMAIN dict \ {key} |-> dict[k]]
        ELSE [dict EXCEPT ![key] = rest]

\* SampleSet.append(sample): the set afterwards and the exception raised.
\* The sample is appended to samples before its ensemble and its replica
\* are looked up.
SampleSet_append(ss, sample) ==
    IF sample \in Range(ss.samples) THEN [set |-> ss, raised |-> "none"]
    ELSE LET s1 == [ss EXCEPT !.samples = Append(@, sample)]
         IN  IF ~IsSample(sample) THEN [set |-> s1, raised |-> "AttributeError"]
             ELSE LET s2 == [s1 EXCEPT !.ensemble_dict =
                                 DictAppend(@, sample[3], sample)]
                  IN  IF ~Hashable(sample[4])
                      THEN [set |-> s2, raised |-> "TypeError"]
                      ELSE [set |-> [s2 EXCEPT !.replica_dict =
                                        DictAppend(@, sample[4], sample)],
                            raised |-> "none"]

\* SampleSet.extend(samples) and the loop of SampleSet.__init__: append one
\* by one, up to the first exception
RECURSIVE SampleSet_extend(_, _)
SampleSet_extend(ss, samples) ==
    IF samples = <<>> THEN [set |-> ss, raised |-> "none"]
    ELSE LET r == SampleSet_append(ss, Head(samples))
         IN  IF r.raised # "none" THEN r
             ELSE SampleSet_extend(r.set, Tail(samples))

\* del self[dead_to_me] leaving the sample where it is
SampleSet___delitem___kept(ss, sample) == [set |-> ss, raised |-> "none"]

\* SampleSet.__delitem__(sample)
SampleSet___delitem__(ss, sample) ==
    IF ~IsSample(sample) THEN [set |-> ss, raised |-> "AttributeError"]
    ELSE IF sample[3] \notin DOMAIN ss.ensemble_dict
    THEN [set |-> ss, raised |-> "KeyError"]
    ELSE IF sample \notin Range(ss.ensemble_dict[sample[3]])
    THEN [set |-> ss, raised |-> "ValueError"]
    ELSE IF ~Hashable(sample[4])
    THEN [set |-> [ss EXCEPT !.ensemble_dict[sample[3]] = ListRemove(@, sample)],
          raised |-> "TypeError"]
    ELSE [set |-> [samples |-> ListRemove(ss.samples, sample),
                   ensemble_dict |-> DictRemove(ss.ensemble_dict, sample[3], sample),
                   replica_dict |-> DictRemove(ss.replica_dict, sample[4], sample)],
          raised |-> "none"]

\* the samples SampleSet.__getitem__(key) chooses from, for a key that is
\* an Ensemble (<<"ens", e>>) or a replica; a missing key is a KeyError,
\* a list is not hashable (opentis) or is iterated lazily (openpathsampling)
SampleSet___getitem__(variant, ss, key) ==
    IF key[1] = "ens"
    THEN IF key[2] \notin DOMAIN ss.ensemble_dict THEN Raise("KeyError")
         ELSE IF ss.ensemble_dict[key[2]] = <<>> THEN Raise("IndexError")
         ELSE <<"choice", Range(ss.ensemble_dict[key[2]])>>
    ELSE IF key[1] = "int"
    THEN IF key \in DOMAIN ss.replica_dict
         THEN <<"choice", Range(ss.replica_dict[key])>>
         ELSE Raise("KeyError")
    ELSE IF variant = "opentis" THEN Raise("TypeError")
    ELSE <<"generator">>

\* the sample attribute a key is compared with
KeyOf(key, value) == IF key[1] = "ens" THEN <<"ens", value[3]>> ELSE value[4]

\* SampleSet.__setitem__(key, value), dead_to_me being the sample that
\* random.choice picks when there is one to pick
SampleSet___setitem__(variant, ss, key, value, dead_to_me) ==
    IF ~IsSample(value) THEN [set |-> ss, raised |-> "AttributeError"]
    ELSE IF key # KeyOf(key, value) THEN [set |-> ss, raised |-> "SampleKeyError"]
    ELSE IF value \in Range(ss.samples) THEN [set |-> ss, raised |-> "none"]
    ELSE LET got == SampleSet___getitem__(variant, ss, key)
         IN  IF got = Raise("KeyError") THEN SampleSet_append(ss, value)
             ELSE IF IsRaise(got) THEN [set |-> ss, raised |-> got[2]]
             ELSE IF got = <<"generator">>
             THEN [set |-> ss, raised |-> "AttributeError"]
             ELSE LET d == SampleSet___delitem__(ss, dead_to_me)
                  IN  IF d.raised # "none" THEN d
                      ELSE SampleSet_append(d.set, value)

\* the samples random.choice may pick in SampleSet.__setitem__(key, value)
Choices(variant, ss, key) ==
    LET got == SampleSet___getitem__(variant, ss, key)
    IN  IF Tag(got) = "choice" THEN got[2] ELSE {NotASample}

MaxSetLen == 2

\* the keys of sset[key] = value
SetKeys == {<<"ens", e>> : e \in SetEnsembles} \cup IntReplicas \cup {ListReplica}

SetValues == CallerSamples \cup {NotASample}

\* the lists handed to extend and apply_samples
SampleLists == {<<x>> : x \in SetValues} \cup {<<x, y>> : x, y \in SetValues}

\* the outcomes of sset[key] = value, one for each sample random.choice may
\* pick
SetItemOutcomes(variant, ss, key, value) ==
    {SampleSet___setitem__(variant, ss, key, value, dead_to_me) :
        dead_to_me \in Choices(variant, ss, key)}

\* SampleSet.apply_samples, the loop over samples: newset[sample.replica] =
\* sample for each; the outcomes over the picks of random.choice
RECURSIVE apply_loop(_, _, _, _)
apply_loop(variant, ss, samples, check_type) ==
    IF samples = <<>> THEN {[set |-> ss, raised |-> "none"]}
    ELSE LET sample == Head(samples)
         IN  IF check_type /\ ~IsSample(sample)
             THEN {[set |-> ss, raised |-> "ValueError"]}
             ELSE IF ~IsSample(sample)
             THEN {[set |-> ss, raised |-> "AttributeError"]}
             ELSE UNION {IF r.raised # "none" THEN {r}
                         ELSE apply_loop(variant, r.set, Tail(samples), check_type) :
                            r \in SetItemOutcomes(variant, ss, sample[4], sample)}

\* apply_samples with newset = self whatever copy is
SampleSet_apply_samples_in_place(variant, ss, samples, copy) ==
    {[self |-> r.set,
      returned |-> IF r.raised = "none" THEN <<"self">> ELSE None,
      raised |-> r.raised] :
        r \in apply_loop(variant, ss, samples, TRUE)}

\* SampleSet.apply_samples(samples, copy): the receiver afterwards, the set
\* returned (None when the call raises, and for opentis, which returns
\* nothing), the exception; one outcome for each way random.choice picks
SampleSet_apply_samples(variant, ss, samples, copy) ==
    IF variant = "opentis"
    THEN {[self |-> r.set, returned |-> None, raised |-> r.raised] :
             r \in apply_loop(variant, ss, samples, FALSE)}
    ELSE IF copy
    THEN LET c == SampleSet_extend(EmptySet, ss.samples)
         IN  IF c.raised # "none"
             THEN {[self |-> ss, returned |-> None, raised |-> c.raised]}
             ELSE {[self |-> ss,
                    returned |-> IF r.raised = "none" THEN <<"set", r.set>>
                                 ELSE None,
                    raised |-> r.raised] :
                      r \in apply_loop(variant, c.set, samples, TRUE)}
    ELSE {[self |-> r.set,
           returned |-> IF r.raised = "none" THEN <<"self">> ELSE None,
           raised |-> r.raised] :
             r \in apply_loop(variant, ss, samples, TRUE)}

\* max([s.replica for s in self.samples]) + 1, or an exception when an
\* element has no replica or a replica that is no number
NextReplica(ss) ==
    IF ss.samples = <<>> THEN <<"int", 0>>
    ELSE IF \E x \in Range(ss.samples) : ~IsSample(x) THEN Raise("AttributeError")
    ELSE IF \E x \in Range(ss.samples) : x[4] = ListReplica THEN Raise("TypeError")
    ELSE LET n == CHOOSE n \in {x[4][2] : x \in Range(ss.samples)} :
                      \A x \in Range(ss.samples) : x[4][2] <= n
         IN  <<"int", n + 1>>

\* SampleSet.append_as_new_replica(sample)
SampleSet_append_as_new_replica(ss, sample) ==
    LET rep == NextReplica(ss)
    IN  IF IsRaise(rep) THEN [set |-> ss, raised |-> rep[2]]
        ELSE IF ~IsSample(sample) THEN [set |-> ss, raised |-> "AttributeError"]
        ELSE SampleSet_append(ss, <<"Sample", sample[2], sample[3], rep>>)

RECURSIVE SumLen(_)
SumLen(dict) ==
    IF DOMAIN dict = {} THEN 0
    ELSE LET k == CHOOSE k \in DOMAIN dict : TRUE
         IN  Len(dict[k]) + SumLen([j \in DOMAIN dict \ {k} |-> dict[j]])

\* SampleSet.consistency_check(): TRUE when no assertion fails and no
\* lookup raises
SampleSet_consistency_check(ss) ==
    /\ Len(ss.samples) = SumLen(ss.ensemble_dict)
    /\ Len(ss.samples) = SumLen(ss.replica_dict)
    /\ \A samp \in Range(ss.samples) :
           /\ IsSample(samp)
           /\ samp[3] \in DOMAIN ss.ensemble_dict
           /\ samp \in Range(ss.ensemble_dict[samp[3]])
           /\ Hashable(samp[4])
           /\ samp[4] \in DOMAIN ss.replica_dict
           /\ samp \in Range(ss.replica_dict[samp[4]])
    /\ \A samp \in Range(ss.samples) :
           Cardinality({i \in DOMAIN ss.samples : ss.samples[i] = samp}) = 1

\* SampleSet([])
InitSet ==
    /\ OnlySet
    /\ svariant \in {"openpathsampling", "opentis"}
    /\ sset = EmptySet
    /\ snew = None
    /\ sout = [op |-> "none", raised |-> "none"]

\* what a call leaves behind
SetCall(op, r) ==
    /\ Len(r.set.samples) <= MaxSetLen
    /\ sset' = r.set
    /\ snew' = None
    /\ sout' = [op |-> op, raised |-> r.raised]
    /\ UNCHANGED svariant
    /\ UNCHANGED exceptSet

\* sset.append(sample)
SetAppend(sample) ==
    /\ svariant \in {"openpathsampling", "opentis"}
    /\ SetCall("append", SampleSet_append(sset, sample))

\* sset.extend(samples)
SetExtend(samples) ==
    /\ svariant = "openpathsampling"
    /\ SetCall("extend", SampleSet_extend(sset, samples))

\* sset[key] = value; removed tells whether a sample left the set
SetItem(key, value) ==
    \E r \in SetItemOutcomes(svariant, sset, key, value) :
        /\ Len(r.set.samples) <= MaxSetLen
        /\ sset' = r.set
        /\ snew' = None
        /\ sout' = [op |-> "setitem", raised |-> r.raised,
                    removed |-> \E x \in Range(sset.samples) :
                                    x \notin Range(r.set.samples)]
        /\ UNCHANGED svariant
        /\ UNCHANGED exceptSet

\* del sset[sample]
SetDelItem(sample) ==
    /\ svariant \in {"openpathsampling", "opentis"}
    /\ SetCall("delitem", SampleSet___delitem__(sset, sample))

\* sset.append_as_new_replica(sample)
SetAppendAsNewReplica(sample) ==
    /\ svariant = "openpathsampling"
    /\ NextReplica(sset) \in IntReplicas \cup {Raise("AttributeError"), Raise("TypeError")}
    /\ SetCall("append_as_new_replica",
               SampleSet_append_as_new_replica(sset, sample))

\* sset.apply_samples(samples, copy)
SetApplySamples(samples, copy) ==
    \E r \in SampleSet_apply_samples(svariant, sset, samples, copy) :
        /\ Len(r.self.samples) <= MaxSetLen
        /\ Tag(r.returned) = "set" => Len(r.returned[2].samples) <= MaxSetLen
        /\ sset' = r.self
        /\ snew' = r.returned
        /\ sout' = [op |-> "apply_samples", raised |-> r.raised]
        /\ UNCHANGED svariant
        /\ UNCHANGED exceptSet

NextSet ==
    \/ \E sample \in SetValues : SetAppend(sample)
    \/ \E samples \in SampleLists : SetExtend(samples)
    \/ \E key \in SetKeys, value \in SetValues : SetItem(key, value)
    \/ \E sample \in SetValues : SetDelItem(sample)
    \/ \E sample \in SetValues : SetAppendAsNewReplica(sample)
    \/ \E samples \in SampleLists, copy \in BOOLEAN : SetApplySamples(samples, copy)

SpecSet == InitSet /\ [][NextSet]_vars

\* C25: after any sequence of append, extend, item assignment, item
\* deletion, apply_samples and append_as_new_replica, calls that raise
\* included, consistency_check passes on the set.
C25_SampleSetConsistency == SampleSet_consistency_check(sset)

(***************************************************************************)
(* C26  A ref is never a stub.                                             *)
(***************************************************************************)
\* an identity marker string is left in the value, at whatever depth
RECURSIVE HoldsMarker(_)
HoldsMarker(v) ==
    \/ is_uuid_string(v)
    \/ Tag(v) = "list" /\ \E i \in 1..Len(v[2]) : HoldsMarker(v[2][i])
    \/ Tag(v) = "dict" /\ \E k \in DOMAIN v[2] : HoldsMarker(v[2][k])

\* C26: an object constructed by from_json_obj holds no identity marker
\* string in its attribute dictionary, at any nesting depth: every reference
\* was replaced by the object of the resolved set, or the construction
\* failed with an error.
C26_RefNeverStub ==
    (jpc = "done" /\ jpath = "obj" /\ Tag(jres) = "new") => ~HoldsMarker(<<"dict", jres[3]>>)

(***************************************************************************)
(* C27  Scalars pass through.                                              *)
(***************************************************************************)
\* the attributes of the table whose type is a builtin scalar type
ScalarAttrs == {a \in SchemaAttrs(tentries) : AttrType(tentries, a) \in builtin_types}

\* C27: serializing an object of a table that has attributes of a builtin
\* scalar type succeeds, and the row holds the object's value of each such
\* attribute unchanged, in Serialization.default_serialize and in
\* SchemaSerializer alike.
C27_ScalarsPassThrough ==
    (tout.op = "serialize" /\ ScalarAttrs # {}) =>
        /\ Tag(tout.result) = "dict"
        /\ \A a \in ScalarAttrs : tout.result[2][a] = <<"raw">>

(***************************************************************************)
(* C28  Lazy edges are recorded but not followed.                          *)
(***************************************************************************)
\* the attributes of type uuid, list_uuid and json_obj of the store, as edges
StrictEdges == {e \in Ids \X Ids : e[2] \in lstore[e[1]].strict}

\* the roots and what they reach through strict references
StrictClosure == lroots \cup ReachFrom(StrictEdges, lroots, {})

\* get_all_uuids_loading has ended, by its return statement or by an exception
ClosureEnded == lcaller = "load" /\ lpc # "closure"

\* it ended by its return statement
ClosureReturned == ClosureEnded /\ lerr # "AttributeError"

\* what the loop has collected for the lazy and the strict references of the
\* rows it fetched
LazyRecordedNotFollowed ==
    \A u \in all_table_rows :
        /\ \A t \in lstore[u].lazy :
               /\ t \in dependencies[u]
               /\ t \in lazy
               /\ t \notin StrictClosure => t \notin all_table_rows
        /\ \A t \in lstore[u].strict : t \in all_table_rows

\* C28: when get_all_uuids_loading has ended on rows that hold lazy
\* references, it has returned, each lazy target is in the dependency entry
\* of its owner and in the lazy targets, a target referenced only lazily was
\* not fetched, and every strict reference of a fetched row was fetched.
C28_LazyNotFollowed ==
    (ClosureEnded /\ \E u \in all_table_rows : lstore[u].lazy # {}) =>
        ClosureReturned /\ LazyRecordedNotFollowed

(***************************************************************************)
(* SpecClosure: get_all_uuids_loading alone, with its arguments as they    *)
(* are passed: uuid_list is a list and may name a uuid more than once,     *)
(* existing_uuids holds the objects the caller has already.  A list whose  *)
(* order plays no part is kept as the number of times each uuid occurs in  *)
(* it.                                                                     *)
(***************************************************************************)
\* the uuids of the store
NumClosIds == 2

\* the most reference attributes the rows of the store hold together
MaxClosEdges == 2

\* the longest uuid_list of a call
MaxClosRoots == 2

ClosIds == 1..NumClosIds

ClosAttrs == {<<f, t, kind>> : f \in ClosIds, t \in ClosIds, kind \in {"uuid", "lazy"}}

ClosStores ==
    {[u \in ClosIds |->
         [strict |-> {a[2] : a \in {b \in attrs : b[1] = u /\ b[3] = "uuid"}},
          lazy |-> {a[2] : a \in {b \in attrs : b[1] = u /\ b[3] = "lazy"}}]] :
        attrs \in SubsetsUpTo(ClosAttrs, MaxClosEdges)}

\* how often u occurs in the list s
CountIn(s, u) == Cardinality({i \in 1..Len(s) : s[i] = u})

\* the loop is cut off here; the function itself has no such limit
MaxClosIterations == NumClosIds + 2

\* new_uuids = {uuid for uuid in uuid_list if uuid not in known_uuids}
new_uuids_unfiltered(uuid_list_, known) == {u \in ClosIds : uuid_list_[u] > 0}

new_uuids_of(uuid_list_, known) == {u \in ClosIds : uuid_list_[u] > 0 /\ u \notin known}

\* known_uuids |= new_uuids
known_uuids_kept(known, new) == known

known_uuids_after(known, new) == known \cup new

\* backend.load_uuids_table and backend.load_table_data: the rows of the
\* given uuids, one row for each
load_table_data(store, uuids) == [u \in uuids |-> store[u]]

InitClosure ==
    /\ OnlyClos
    /\ cargs \in [store : ClosStores,
                  uuid_list : SeqsUpTo(ClosIds, MaxClosRoots),
                  existing_uuids : SUBSET ClosIds]
    /\ cloop = [uuid_list |-> [u \in ClosIds |-> CountIn(cargs.uuid_list, u)],
                known_uuids |-> cargs.existing_uuids,
                all_table_rows |-> [u \in ClosIds |-> 0],
                lazy |-> {},
                dependencies |-> <<>>,
                iterations |-> 0,
                pc |-> "loop"]

\* one iteration of "while uuid_list"
ClosureIteration ==
    /\ cloop.pc = "loop"
    /\ \E u \in ClosIds : cloop.uuid_list[u] > 0
    /\ cloop.iterations < MaxClosIterations
    /\ LET new == new_uuids_of(cloop.uuid_list, cloop.known_uuids)
           new_table_rows == load_table_data(cargs.store, new)
           scanned == [u \in new |-> uuids_from_table_row(u, new_table_rows[u])]
       IN  cloop' =
               [uuid_list |->
                    [t \in ClosIds |-> Cardinality({u \in new : t \in scanned[u].uuid})],
                known_uuids |-> known_uuids_after(cloop.known_uuids, new),
                all_table_rows |->
                    [u \in ClosIds |->
                        cloop.all_table_rows[u] + (IF u \in new THEN 1 ELSE 0)],
                lazy |-> cloop.lazy \cup UNION {scanned[u].lazy : u \in new},
                dependencies |->
                    Update(cloop.dependencies,
                           [u \in new |-> scanned[u].dependencies[u]]),
                iterations |-> cloop.iterations + 1,
                pc |-> "loop"]
    /\ UNCHANGED cargs
    /\ UNCHANGED exceptClos

\* the statements after the loop: the rows and the lazy uuids are grouped by
\* row_to_table, which fails on a lazy uuid
ClosureExit ==
    /\ cloop.pc = "loop"
    /\ \A u \in ClosIds : cloop.uuid_list[u] = 0
    /\ cloop' = [cloop EXCEPT !.pc = IF cloop.lazy # {} THEN "raised" ELSE "returned"]
    /\ UNCHANGED cargs
    /\ UNCHANGED exceptClos

NextClosure == ClosureIteration \/ ClosureExit

SpecClosure == InitClosure /\ [][NextClosure]_vars

\* The loop is scheduled until it ends.  Lazy attributes never enter
\* uuid_list, so they play no part in how long the loop runs: the stores of
\* this specification hold strict references only.
InitClosureFair ==
    /\ InitClosure
    /\ \A u \in ClosIds : cargs.store[u].lazy = {}

SpecClosureFair == InitClosureFair /\ [][NextClosure]_vars /\ WF_vars(NextClosure)

(***************************************************************************)
(* C29  Closure completeness.                                              *)
(***************************************************************************)
\* the strict references of the rows that are not in existing_uuids
OpenEdges ==
    {e \in ClosIds \X ClosIds :
        /\ e[1] \notin cargs.existing_uuids
        /\ e[2] \notin cargs.existing_uuids
        /\ e[2] \in cargs.store[e[1]].strict}

OpenRoots == {cargs.uuid_list[i] : i \in 1..Len(cargs.uuid_list)} \ cargs.existing_uuids

\* the roots and what they reach through strict references, on paths that
\* stay outside existing_uuids
ToFetch == OpenRoots \cup ReachFrom(OpenEdges, OpenRoots, {})

ClosureLoopEnded == cloop.pc \in {"returned", "raised"}

\* C29: when the loop of get_all_uuids_loading has ended, the rows fetched
\* are exactly those of the roots and of what the roots reach through strict
\* references on paths outside existing_uuids, each was fetched exactly
\* once, and dependencies has exactly one entry for each fetched row.
C29_ClosureCompleteness ==
    ClosureLoopEnded =>
        /\ \A u \in ClosIds :
               cloop.all_table_rows[u] = (IF u \in ToFetch THEN 1 ELSE 0)
        /\ DOMAIN cloop.dependencies = ToFetch

\* a row that several rows refer to, or that the root list names twice, was
\* fetched, with existing_uuids not empty
C29_Witness ==
    /\ ClosureLoopEnded
    /\ cargs.existing_uuids # {}
    /\ \E u \in ToFetch :
           \/ CountIn(cargs.uuid_list, u) > 1
           \/ CountIn(cargs.uuid_list, u) = 1 /\ u \in cargs.store[u].strict

(***************************************************************************)
(* C30  Closure termination.                                               *)
(***************************************************************************)
\* C30: get_all_uuids_loading ends for every store and every root list,
\* reference cycles and root lists of known uuids included, after no more
\* loop iterations than there are distinct uuids, plus one.
C30_ClosureTermination ==
    /\ [](cloop.iterations <= NumClosIds + 1)
    /\ <>ClosureLoopEnded

\* the function has ended on a store with a reference cycle that it walked
C30_Witness ==
    /\ ClosureLoopEnded
    /\ cloop.iterations > 1
    /\ \E u \in ToFetch : u \in ReachFrom(OpenEdges, {u}, {})

(***************************************************************************)
(* C31  The reconstruction order is complete.                              *)
(***************************************************************************)
\* C31: the reload order of an acyclic dependency dict holds every uuid that
\* has an entry in dependencies exactly once, a uuid that refers to nothing
\* and is referred to by nothing included, so the reconstruction loop
\* reconstructs every requested object.
C31_OrderComplete ==
    (lcaller = "load" /\ lpc \in {"reconstruct", "done"}) =>
        \A u \in DOMAIN dependencies :
            Cardinality({i \in 1..Len(ReloadSequence) : ReloadSequence[i] = u}) = 1

(***************************************************************************)
(* C32  Vectorized write equals sequential writes.                         *)
(***************************************************************************)
\* delegate[ks[j]] = vs[j] for j = 0, 1, ... one after another
RECURSIVE sequential_writes(_, _, _)
sequential_writes(cs, ks, vs) ==
    IF ks = <<>> THEN cs
    ELSE sequential_writes(KeyDelegate___setitem__(cs, Head(ks), Head(vs)),
                           Tail(ks), Tail(vs))

\* the value written last for the key of position j
LastWritten(ks, vs, j) ==
    vs[CHOOSE k \in DOMAIN ks :
           /\ KeyIdx(ks[k]) = KeyIdx(ks[j])
           /\ \A m \in DOMAIN ks : KeyIdx(ks[m]) = KeyIdx(ks[j]) => m <= k]

\* C32: a vectorized write through the KeyDelegate leaves the variable as
\* the scalar writes of its keys and values in request order leave it, for
\* keys in any order and with repetitions, and a following vectorized read of
\* the keys gives the value written last for each key.
C32_VectorizedWrite ==
    \A key \in ListKeys : \A value \in ValuesFor(key) :
        LET written == KeyDelegate___setitem__(vcells, key, value)
            read == KeyDelegate___getitem__(written, key)
        IN  /\ written = sequential_writes(vcells, key[2], value[2])
            /\ ~IsRaise(read)
            /\ \A j \in DOMAIN key[2] : read[2][j] = LastWritten(key[2], value[2], j)

(***************************************************************************)
(* C33  SampleSet item assignment.                                         *)
(***************************************************************************)
\* the samples of the caller as the class documents them: the replica is an
\* integer
TypedSamples == {x \in CallerSamples : x[4] \in IntReplicas}

TypedKeys == {<<"ens", e>> : e \in SetEnsembles} \cup IntReplicas

\* the samples of the set that have the key
WithKey(ss, key) ==
    {x \in Range(ss.samples) : IsSample(x) /\ KeyOf(key, x) = key}

\* what the claim says of one outcome r of sset[key] = value
ItemAssigned(ss, key, value, r) ==
    IF key # KeyOf(key, value)
    THEN r.raised = "SampleKeyError" /\ r.set = ss
    ELSE IF value \in Range(ss.samples)
    THEN r.raised = "none" /\ r.set = ss
    ELSE LET gone == Range(ss.samples) \ Range(r.set.samples)
         IN  /\ r.raised = "none"
             /\ value \in Range(r.set.samples)
             /\ Range(r.set.samples) \subseteq Range(ss.samples) \cup {value}
             /\ gone \subseteq WithKey(ss, key)
             /\ IF WithKey(ss, key) # {}
                THEN /\ Cardinality(gone) = 1
                     /\ Len(r.set.samples) = Len(ss.samples)
                ELSE /\ gone = {}
                     /\ Len(r.set.samples) = Len(ss.samples) + 1

\* C33: sset[key] = value on a set that passes consistency_check.  When
\* the key is not the one of the value, SampleKeyError is raised and the set
\* is unchanged; when the value is in the set already nothing changes;
\* otherwise the value is in the set afterwards, exactly one sample with the
\* key has left it if there was one (the length is unchanged) and none if
\* there was none (the length has grown by one), and all other samples
\* remain.
C33_ItemAssignment ==
    SampleSet_consistency_check(sset) =>
        \A key \in TypedKeys, value \in TypedSamples :
            \A r \in SetItemOutcomes(svariant, sset, key, value) :
                /\ ItemAssigned(sset, key, value, r)
                /\ SampleSet_consistency_check(r.set)

\* an item assignment has replaced a sample of a set of two
C33_Witness ==
    /\ sout.op = "setitem"
    /\ sout.raised = "none"
    /\ sout.removed
    /\ Len(sset.samples) = 2
    /\ SampleSet_consistency_check(sset)

(***************************************************************************)
(* C34  apply_samples leaves the original untouched.                       *)
(***************************************************************************)
\* C34: apply_samples(samples) with copy=True leaves samples, ensemble_dict
\* and replica_dict of the receiver as they were, also when it raises; when
\* it returns, it returns another set, made of samples of the receiver and
\* of the argument, not shorter than the receiver, that holds the sample
\* given last.
C34_ApplySamplesCopy ==
    svariant = "openpathsampling" =>
        \A samples \in SampleLists :
            \A r \in SampleSet_apply_samples(svariant, sset, samples, TRUE) :
                /\ r.self = sset
                /\ r.raised = "none" =>
                      /\ Tag(r.returned) = "set"
                      /\ samples[Len(samples)] \in Range(r.returned[2].samples)
                      /\ Range(r.returned[2].samples) \subseteq
                             Range(sset.samples) \cup Range(samples)
                      /\ Len(r.returned[2].samples) >= Len(sset.samples)

\* apply_samples has returned a set that differs from its receiver, which
\* is not empty
C34_Witness ==
    /\ sout.op = "apply_samples"
    /\ sout.raised = "none"
    /\ Tag(snew) = "set"
    /\ sset.samples # <<>>
    /\ snew[2] # sset

(***************************************************************************)
(* SpecSim: DirectSimulation.run of pathsimulators/shoot_from_snapshot.py. *)
(* A frame is a position on a line; the states A and B are the two ends,   *)
(* each inside its interface volume.  The engine may produce any frame.    *)
(* A state is <<"vol", name>>, or None; was_in_interface holds None or     *)
(* <<"bool", b>>.  The simulation has a storage, so run keeps local_traj,  *)
(* which starts with the initial snapshot.                                 *)
(***************************************************************************)
\* the most steps of one run
MaxSteps == 5

Frames == 0..4

\* self.states, in their order
SimStates == <<"A", "B">>

\* the volumes, as the frames they hold
VolumeFrames == [A |-> {0}, IA |-> {0, 1}, B |-> {4}, IB |-> {3, 4}]

\* volume(frame)
InVolume(v, frame) == frame \in VolumeFrames[v]

\* self.flux_pairs
FluxPairs == {<<"A", "IA">>, <<"B", "IB">>}

\* state = None; for s in self.states: if s(frame): state = s
RECURSIVE state_of(_, _, _)
state_of(states, frame, state) ==
    IF states = <<>> THEN state
    ELSE state_of(Tail(states), frame,
                  IF InVolume(Head(states), frame) THEN <<"vol", Head(states)>>
                  ELSE state)

\* the reset of first_interface_exit on the entrance into a state
reset_first_exit_never(fie, state) == fie

reset_first_exit(fie, state) ==
    [p \in FluxPairs |-> IF p[1] = state[2] THEN -1 ELSE fie[p]]

\* `if most_recent_state:` before a transition is counted
counts_transition_always(most_recent_state) == TRUE

counts_transition(most_recent_state) == most_recent_state # None

\* one iteration of the loop of run: the fields of the simulation and the
\* local variables after the frame of this step
run_iteration(self, loc, frame) ==
    LET step == loc.step
        state == state_of(SimStates, frame, None)
        last_state_visit ==
            IF state # None THEN [loc.last_state_visit EXCEPT ![state[2]] = step]
            ELSE loc.last_state_visit
        changed == state # None /\ state # loc.most_recent_state
        first_exit_0 ==
            IF changed THEN reset_first_exit(loc.first_interface_exit, state)
            ELSE loc.first_interface_exit
        transition_count ==
            IF changed /\ counts_transition(loc.most_recent_state)
            THEN Append(self.transition_count, <<state[2], step>>)
            ELSE self.transition_count
        most_recent_state == IF changed THEN state ELSE loc.most_recent_state
        is_in_interface(p) == InVolume(p[2], frame)
        first_exit_condition(p) ==
            /\ ~is_in_interface(p)
            /\ loc.was_in_interface[p] = <<"bool", TRUE>>
            /\ <<"vol", p[1]>> = most_recent_state
            /\ first_exit_0[p] < last_state_visit[p[1]]
    IN  [self |->
            [transition_count |-> transition_count,
             flux_events |->
                 [p \in FluxPairs |->
                     IF /\ first_exit_condition(p)
                        /\ 0 < first_exit_0[p]
                        /\ first_exit_0[p] < last_state_visit[p[1]]
                     THEN Append(self.flux_events[p], <<step, first_exit_0[p]>>)
                     ELSE self.flux_events[p]]],
         loc |->
            [n_steps |-> loc.n_steps,
             step |-> step + 1,
             most_recent_state |-> most_recent_state,
             first_interface_exit |->
                 [p \in FluxPairs |->
                     IF first_exit_condition(p) THEN step ELSE first_exit_0[p]],
             last_state_visit |-> last_state_visit,
             was_in_interface |-> [p \in FluxPairs |-> <<"bool", is_in_interface(p)>>],
             local_traj |-> Append(loc.local_traj, frame),
             pc |-> "loop"]]

\* DirectSimulation.transitions: the lags between consecutive entries of
\* transition_count, by (previous state, new state)
RECURSIVE transitions_loop(_, _, _)
transitions_loop(count, prev, results) ==
    IF count = <<>> THEN results
    ELSE LET new_state == Head(count)[1]
             time == Head(count)[2]
             key == <<prev[1], new_state>>
         IN  transitions_loop(
                 Tail(count), <<new_state, time>>,
                 IF prev = None THEN results
                 ELSE IF key \in DOMAIN results
                 THEN [results EXCEPT ![key] = Append(@, time - prev[2])]
                 ELSE (key :> <<time - prev[2]>>) @@ results)

transitions(self) == transitions_loop(self.transition_count, None, <<>>)

\* DirectSimulation(storage, engine, states, flux_pairs, initial_snapshot)
\* and the first statements of run(n_steps)
InitSim ==
    /\ OnlySim
    /\ simulation = [transition_count |-> <<>>,
                     flux_events |-> [p \in FluxPairs |-> <<>>]]
    /\ \E n_steps \in 0..MaxSteps, initial_snapshot \in {0, 2} :
           run_locals = [n_steps |-> n_steps,
                         step |-> 0,
                         most_recent_state |-> None,
                         first_interface_exit |-> [p \in FluxPairs |-> -1],
                         last_state_visit |-> [s \in {"A", "B"} |-> -1],
                         was_in_interface |-> [p \in FluxPairs |-> None],
                         local_traj |-> <<initial_snapshot>>,
                         pc |-> "loop"]

\* one step of the loop, with the frame the engine generates
RunStep(frame) ==
    /\ run_locals.pc = "loop"
    /\ run_locals.step < run_locals.n_steps
    /\ LET r == run_iteration(simulation, run_locals, frame)
       IN  simulation' = r.self /\ run_locals' = r.loc
    /\ UNCHANGED exceptSim

\* the loop is over: the trajectory is saved and run returns
RunReturn ==
    /\ run_locals.pc = "loop"
    /\ run_locals.step = run_locals.n_steps
    /\ run_locals' = [run_locals EXCEPT !.pc = "returned"]
    /\ UNCHANGED simulation
    /\ UNCHANGED exceptSim

NextSim ==
    \/ \E frame \in Frames : RunStep(frame)
    \/ RunReturn

SpecSim == InitSim /\ [][NextSim]_vars

(***************************************************************************)
(* C35  Transition bookkeeping.                                            *)
(***************************************************************************)
\* the frame of a step of the run, and the steps done so far
FrameAt(k) == run_locals.local_traj[k + 2]

StepsDone == 0..(run_locals.step - 1)

\* the state the frame of step k lies in, "none" outside the states
StateAt(k) ==
    IF InVolume("A", FrameAt(k)) THEN "A"
    ELSE IF InVolume("B", FrameAt(k)) THEN "B"
    ELSE "none"

\* the state visited most recently before step k, at or before step k
VisitedBefore(k) ==
    LET visits == {j \in 0..(k - 1) : StateAt(j) # "none"}
    IN  IF visits = {} THEN "none"
        ELSE StateAt(CHOOSE j \in visits : \A i \in visits : i <= j)

VisitedUpTo(k) == IF StateAt(k) # "none" THEN StateAt(k) ELSE VisitedBefore(k)

\* the steps whose frame lies in a state other than the one visited most
\* recently, the first state ever visited left out
TransitionSteps ==
    {k \in StepsDone :
        /\ StateAt(k) # "none"
        /\ VisitedBefore(k) # "none"
        /\ StateAt(k) # VisitedBefore(k)}

\* C35: transition_count holds exactly one entry (state, step) for every
\* step whose frame lies in a state other than the most recently visited
\* one, the first state visited excepted, in the order of the steps;
\* consecutive entries name different states at increasing steps; and
\* transitions holds len(transition_count) - 1 lags (0 if empty), each at
\* least 1, under the key (state entered earlier, state entered next).
C35_TransitionBookkeeping ==
    LET count == simulation.transition_count
        steps == SortedSet(TransitionSteps)
        lags == transitions(simulation)
    IN  /\ count = [i \in 1..Len(steps) |-> <<StateAt(steps[i]), steps[i]>>]
        /\ \A i \in 1..(Len(count) - 1) :
               /\ count[i][1] # count[i + 1][1]
               /\ count[i][2] < count[i + 1][2]
               /\ <<count[i][1], count[i + 1][1]>> \in DOMAIN lags
               /\ \E j \in DOMAIN lags[<<count[i][1], count[i + 1][1]>>] :
                      lags[<<count[i][1], count[i + 1][1]>>][j] =
                          count[i + 1][2] - count[i][2]
        /\ SumLen(lags) = (IF count = <<>> THEN 0 ELSE Len(count) - 1)
        /\ \A key \in DOMAIN lags : \A j \in DOMAIN lags[key] : lags[key][j] >= 1

\* a run has returned after going from A to B and back to A
C35_Witness ==
    /\ run_locals.pc = "returned"
    /\ Len(simulation.transition_count) = 2
    /\ simulation.transition_count[1][1] = "B"
    /\ simulation.transition_count[2][1] = "A"
    /\ DOMAIN transitions(simulation) = {<<"B", "A">>}

(***************************************************************************)
(* C36  Flux events.                                                       *)
(***************************************************************************)
\* at step x the frame is outside the interface of the pair, the frame
\* before was inside it, and the state of the pair is the one visited most
\* recently
IsCrossing(p, x) ==
    /\ x \in StepsDone
    /\ x >= 1
    /\ ~InVolume(p[2], FrameAt(x))
    /\ InVolume(p[2], FrameAt(x - 1))
    /\ VisitedUpTo(x) = p[1]

\* the last step up to x at which the frame was in the state of the pair
LastVisit(p, x) ==
    LET visits == {j \in 0..x : StateAt(j) = p[1]}
    IN  IF visits = {} THEN -1 ELSE CHOOSE j \in visits : \A i \in visits : i <= j

\* the last step up to x at which the state of the pair was entered from
\* another state, or for the first time
LastEntered(p, x) ==
    LET entries == {j \in 0..x : StateAt(j) = p[1] /\ VisitedBefore(j) # p[1]}
    IN  IF entries = {} THEN -1 ELSE CHOOSE j \in entries : \A i \in entries : i <= j

\* the crossing at x is the first one after a visit to the state
IsFirstExit(p, x) ==
    /\ IsCrossing(p, x)
    /\ \A y \in (LastVisit(p, x) + 1)..(x - 1) : ~IsCrossing(p, y)

\* C36: every event (t_new, t_old) of flux_events[(state, interface)] was
\* recorded at a step t_new at which the frame is outside the interface, the
\* frame before was inside it and `state` is the state visited most
\* recently; t_new is the first exit after a visit to the state, t_old is the
\* first exit before it, later than the last entrance into the state from
\* another state; the state was visited at a step strictly between them;
\* 0 < t_old < t_new; and no step has two events of a pair.
C36_FluxEvents ==
    \A p \in FluxPairs :
        LET events == simulation.flux_events[p]
        IN  /\ \A i \in DOMAIN events :
                   LET t_new == events[i][1]
                       t_old == events[i][2]
                   IN  /\ IsFirstExit(p, t_new)
                       /\ 0 < t_old /\ t_old < t_new
                       /\ IsFirstExit(p, t_old)
                       /\ \A y \in (t_old + 1)..(t_new - 1) : ~IsFirstExit(p, y)
                       /\ t_old > LastEntered(p, t_new)
                       /\ \E v \in (t_old + 1)..(t_new - 1) : StateAt(v) = p[1]
            /\ \A i \in 1..(Len(events) - 1) : events[i][1] < events[i + 1][1]

\* a run has returned with a flux event out of A, after a visit to B
C36_Witness ==
    /\ run_locals.pc = "returned"
    /\ simulation.flux_events[<<"A", "IA">>] # <<>>
    /\ \E k \in StepsDone : StateAt(k) = "B"

(***************************************************************************)
(* SparseHistogram (analysis/histogram.py).  One dimension, left bin edge  *)
(* 0 and bin width BinWidth; the data points are integers and the weights  *)
(* positive integers, so the sums of the code are exact.                   *)
(***************************************************************************)
MaxHistCalls == 3
MaxData == 2
BinWidth == 2

DataPoints == 0..3
Weights == {1, 2}

\* the data arguments: a list of points, or None
DataArgs == {None} \cup {<<"list", d>> : d \in UNION {[1..n -> DataPoints] : n \in 0..MaxData}}

\* the weights that go with a data argument: None or one weight per point
WeightArgs(data) ==
    {None} \cup (IF data = None THEN {}
                 ELSE {<<"list", w>> : w \in [1..Len(data[2]) -> Weights]})

\* map_to_bins: floor((data - left_bin_edges) / bin_widths)
map_to_bins(d) == (d - 0) \div BinWidth

\* Counter.__add__: the sum over the keys of both, positive counts only
CounterAdd(a, b) ==
    LET at(c, k) == IF k \in DOMAIN c THEN c[k] ELSE 0
        keys == {k \in DOMAIN a \cup DOMAIN b : at(a, k) + at(b, k) > 0}
    IN  [k \in keys |-> at(a, k) + at(b, k)]

EmptyCounter == [k \in {} |-> 0]

\* sum((Counter({map_to_bins(d): w}) for (d, w) in zip(data, weights)),
\*     Counter({}))
RECURSIVE part_hist(_, _, _)
part_hist(data, weights, i) ==
    IF i > Len(data) \/ i > Len(weights) THEN EmptyCounter
    ELSE CounterAdd([k \in {map_to_bins(data[i])} |-> weights[i]],
                    part_hist(data, weights, i + 1))

RECURSIVE SumSeq(_, _)
SumSeq(s, i) == IF i > Len(s) THEN 0 ELSE s[i] + SumSeq(s, i + 1)

\* add_data_to_histogram on a histogram that has a counter (lines 107-116)
add_data(h, data, weights) ==
    LET ws == IF weights = None THEN [i \in 1..Len(data[2]) |-> 1] ELSE weights[2]
        new == CounterAdd(h._histogram[2], part_hist(data[2], ws, 1))
    IN  [hist |-> [count |-> h.count + SumSeq(ws, 1), _histogram |-> <<"counter", new>>],
         ret |-> <<"counter", new>>]

\* SparseHistogram.histogram (lines 49-55)
SparseHistogram_histogram(h, data, weights) ==
    IF data = None /\ h._histogram = None
    THEN [hist |-> h, ret |-> Raise("RuntimeError")]
    ELSE IF data # None
    THEN add_data([count |-> h.count,
              _histogram |-> <<"counter", EmptyCounter>>], data, weights)
    ELSE [hist |-> h, ret |-> h._histogram]

\* SparseHistogram.add_data_to_histogram (lines 105-116)
SparseHistogram_add_data_to_histogram(h, data, weights) ==
    IF h._histogram = None THEN SparseHistogram_histogram(h, data, weights)
    ELSE IF data = None THEN [hist |-> h, ret |-> Raise("TypeError")]
    ELSE add_data(h, data, weights)

\* SparseHistogram.__init__
InitHist ==
    /\ OnlyHist
    /\ hist = [count |-> 0, _histogram |-> None]
    /\ hcall = [n |-> 0, ret |-> None]

HistCall(r) ==
    /\ hist' = r.hist
    /\ hcall' = [n |-> hcall.n + 1, ret |-> r.ret]
    /\ UNCHANGED exceptHist

HistHistogram ==
    /\ hcall.n < MaxHistCalls
    /\ \E data \in DataArgs : \E weights \in WeightArgs(data) :
           HistCall(SparseHistogram_histogram(hist, data, weights))

HistAddData ==
    /\ hcall.n < MaxHistCalls
    /\ \E data \in DataArgs : \E weights \in WeightArgs(data) :
           HistCall(SparseHistogram_add_data_to_histogram(hist, data, weights))

NextHist ==
    \/ HistHistogram
    \/ HistAddData

SpecHist == InitHist /\ [][NextHist]_vars

RECURSIVE SumCounter(_)
SumCounter(c) ==
    IF DOMAIN c = {} THEN 0
    ELSE LET k == CHOOSE x \in DOMAIN c : TRUE
         IN  c[k] + SumCounter([x \in DOMAIN c \ {k} |-> c[x]])

\* C37: count equals the sum of the weights held in the bin counter, after
\* any sequence of histogram(data, weights) and add_data_to_histogram(data,
\* weights) calls; a histogram(data) that overwrites leaves the weight of the
\* new data only.
C37_CountMatchesContent ==
    hist._histogram # None => hist.count = SumCounter(hist._histogram[2])

(***************************************************************************)
(* TransformedDict (analysis/shooting_point_analysis.py).  The keys are    *)
(* NumTdKeys objects, a hash function maps each key to one of NumHashes    *)
(* hashes, and the values are two committor results.                       *)
(***************************************************************************)
NumTdKeys == 3
NumHashes == 2

TdKeys == 1..NumTdKeys
HashFunctions == [TdKeys -> 0..(NumHashes - 1)]
TdValues == {"toA", "toB"}

EmptyDict == [k \in {} |-> 0]

\* TransformedDict.__setitem__
TransformedDict___setitem__(td, key, value) ==
    LET hashed == td.hash_function[key]
    IN  [td EXCEPT !.hash_representatives =
                       IF hashed \in DOMAIN @ THEN @ ELSE Update(@, (hashed :> key)),
                   !.store = Update(@, (hashed :> value))]

\* TransformedDict.__delitem__: del of a missing hash raises KeyError
TransformedDict___delitem__(td, key) ==
    LET hashed == td.hash_function[key]
    IN  IF hashed \notin DOMAIN td.store THEN [self |-> td, raised |-> "KeyError"]
        ELSE [self |-> [td EXCEPT !.store = [k \in DOMAIN @ \ {hashed} |-> @[k]],
                                  !.hash_representatives = [k \in DOMAIN @ \ {hashed} |-> @[k]]],
              raised |-> "none"]

\* TransformedDict.__getitem__
TransformedDict___getitem__(td, key) ==
    IF td.hash_function[key] \in DOMAIN td.store
    THEN <<"value", td.store[td.hash_function[key]]>>
    ELSE Raise("KeyError")

\* MutableMapping.update(other): self[key] = other[key] for the keys of
\* other in the order given
RECURSIVE update_in_order(_, _, _, _)
update_in_order(td, other, key_order, i) ==
    IF i > Len(key_order) THEN td
    ELSE update_in_order(TransformedDict___setitem__(td, key_order[i], other[key_order[i]]),
                         other, key_order, i + 1)

\* TransformedDict.__init__(hash_function, a_dict): the dict is iterated in
\* an order the caller does not choose
TransformedDict___init__(hash_function, a_dict) ==
    {update_in_order([store |-> EmptyDict, hash_representatives |-> EmptyDict,
                      hash_function |-> hash_function], a_dict, key_order, 1) :
        key_order \in Perms(DOMAIN a_dict)}

\* the dict of rehash: {self.hash_representatives[k]: self.store[k]
\*                      for k in self.store}
representatives_dict(td) ==
    [rep \in {td.hash_representatives[k] : k \in DOMAIN td.store} |->
        td.store[CHOOSE k \in DOMAIN td.store : td.hash_representatives[k] = rep]]

\* TransformedDict.rehash
TransformedDict_rehash(td, new_hash) ==
    TransformedDict___init__(new_hash, representatives_dict(td))

InitRehash ==
    /\ OnlyTd
    /\ \E hash_function \in HashFunctions :
           tdict \in TransformedDict___init__(hash_function, EmptyDict)
    /\ rehashed = None

TdSetItem ==
    /\ \E key \in TdKeys, value \in TdValues :
           tdict' = TransformedDict___setitem__(tdict, key, value)
    /\ UNCHANGED rehashed
    /\ UNCHANGED exceptTd

TdDelItem ==
    /\ \E key \in TdKeys : tdict' = TransformedDict___delitem__(tdict, key).self
    /\ UNCHANGED rehashed
    /\ UNCHANGED exceptTd

TdRehash ==
    /\ \E new_hash \in HashFunctions :
           \E r \in TransformedDict_rehash(tdict, new_hash) :
               rehashed' = <<"rehash", [d |-> tdict, new_hash |-> new_hash, r |-> r]>>
    /\ UNCHANGED tdict
    /\ UNCHANGED exceptTd

NextRehash ==
    \/ TdSetItem
    \/ TdDelItem
    \/ TdRehash

SpecRehash == InitRehash /\ [][NextRehash]_vars

\* the mapping from the old hash to the new hash is a function: keys with
\* the same old hash have the same new hash
HashMapsOnto(old_hash, new_hash) ==
    \A x, y \in TdKeys : old_hash[x] = old_hash[y] => new_hash[x] = new_hash[y]

\* C38: when the mapping from the old hash to the new hash is a function,
\* the dict returned by d.rehash(h) gives, for the representative key of
\* every entry of d, the value d gives, and has as many entries as d: none is
\* dropped or overwritten by another.
C38_RehashKeepsData ==
    (rehashed # None /\ HashMapsOnto(rehashed[2].d.hash_function, rehashed[2].new_hash)) =>
        LET d == rehashed[2].d
            r == rehashed[2].r
        IN  /\ \A k \in DOMAIN d.store :
                   TransformedDict___getitem__(r, d.hash_representatives[k])
                       = TransformedDict___getitem__(d, d.hash_representatives[k])
            /\ Cardinality(DOMAIN r.store) = Cardinality(DOMAIN d.store)

(***************************************************************************)
(* find_dependent_uuids on the JSON text of a structured value.            *)
(***************************************************************************)
\* the values of a dict, one after the other
RECURSIVE DictValues(_)
DictValues(f) ==
    IF DOMAIN f = {} THEN <<>>
    ELSE LET k == CHOOSE x \in DOMAIN f : TRUE
         IN  <<f[k]>> \o DictValues([x \in DOMAIN f \ {k} |-> f[x]])

RECURSIVE Concat(_)
Concat(ss) == IF ss = <<>> THEN <<>> ELSE Head(ss) \o Concat(Tail(ss))

\* tools.flatten_all: the leaves of the lists and of the values of the dicts
\* of obj, in traversal order; a string is a leaf
RECURSIVE flatten_all(_)
flatten_all(obj) ==
    IF is_mappable(obj)
    THEN Concat([i \in 1..Len(DictValues(obj[2])) |-> flatten_all(DictValues(obj[2])[i])])
    ELSE IF is_iterable(obj)
    THEN Concat([i \in 1..Len(obj[2]) |-> flatten_all(obj[2][i])])
    ELSE <<obj>>

\* [decode_uuid(obj) for obj in flatten_all(ujson.loads(json_dct))
\*  if is_uuid_string(obj)]; a decode_uuid that raises ends the call
find_dependent_uuids(json_dct) ==
    LET dct == ujson_loads(json_dct)
        marked == SelectSeq(flatten_all(dct), is_uuid_string)
        uuids == [i \in 1..Len(marked) |-> decode_uuid(marked[i][2])]
    IN  IF \E i \in 1..Len(uuids) : IsRaise(uuids[i])
        THEN uuids[CHOOSE i \in 1..Len(uuids) :
                       IsRaise(uuids[i]) /\ \A j \in 1..(i - 1) : ~IsRaise(uuids[j])]
        ELSE <<"list", uuids>>

\* plain data strings, two of them shaped like an identity marker
DepStrings ==
    {<<"a">>, <<"U", "U", "I", "D", "(", "1", ")">>, <<"U", "U", "I", "D", "(", "a", ")">>}

DepAtoms ==
    {<<"int", 0>>, None} \cup {<<"str", s>> : s \in DepStrings}
        \cup {<<"obj", u>> : u \in JsonUuids}

DepLists == {<<"list", s>> : s \in SeqsUpTo(DepAtoms, MaxListLen)}

DepDicts == {<<"dict", [k \in {"k"} |-> v]>> : v \in DepAtoms \cup DepLists}

DepValues == DepAtoms \cup DepLists \cup DepDicts

InitDeps ==
    /\ OnlyDeps
    /\ dep_x \in DepValues
    /\ dep_uuids = None

FindDependentUuids ==
    /\ dep_uuids = None
    /\ dep_uuids' = find_dependent_uuids(to_bare_json(dep_x))
    /\ UNCHANGED dep_x
    /\ UNCHANGED exceptDeps

NextDeps == FindDependentUuids

SpecDeps == InitDeps /\ [][NextDeps]_vars

\* the identities of the storable objects embedded in x, one per occurrence,
\* in traversal order
RECURSIVE EmbeddedUuids(_)
EmbeddedUuids(x) ==
    IF Tag(x) = "obj" THEN <<<<"long", x[2]>>>>
    ELSE IF Tag(x) = "dict"
    THEN Concat([i \in 1..Len(DictValues(x[2])) |-> EmbeddedUuids(DictValues(x[2])[i])])
    ELSE IF Tag(x) = "list"
    THEN Concat([i \in 1..Len(x[2]) |-> EmbeddedUuids(x[2][i])])
    ELSE <<>>

\* C39: find_dependent_uuids(to_bare_json(x)) returns exactly the identities
\* of the storable objects embedded in x, one per occurrence and in traversal
\* order; a plain data string of x is never reported, whatever its content.
C39_MarkersAndDataApart ==
    dep_uuids # None => dep_uuids = <<"list", EmbeddedUuids(dep_x)>>

(***************************************************************************)
(* C40  SampleSet equality.                                                *)
(***************************************************************************)
\* SampleSet.__eq__: the return of line 119 comes before the loop over the
\* samples, which is never run
SampleSet___eq__(self, other) ==
    IF Len(self.samples) = Len(other.samples) THEN TRUE ELSE FALSE

\* C40: a == b holds only if the two sets hold the same number of samples
\* and, position by position, the very same Sample instances; here a is the
\* set apply_samples was called on and b the set it returned.
C40_SampleSetEquality ==
    (svariant = "openpathsampling" /\ Tag(snew) = "set") =>
        (SampleSet___eq__(sset, snew[2]) =>
            /\ Len(sset.samples) = Len(snew[2].samples)
            /\ \A i \in DOMAIN sset.samples : sset.samples[i] = snew[2].samples[i])

====
